---- MODULE Spec2Model ----
(***************************************************************************)
(* Model of the graph manipulation engine: typed attributes, Node, Edge,   *)
(* Graph (adjacency index, cycle detection, subgraph extraction) and the   *)
(* query services built on it.  Python objects live in a heap of slots so  *)
(* that aliasing between graphs, nodes and edges is part of the state.     *)
(***************************************************************************)
EXTENDS Integers, Sequences, FiniteSets, TLC

VARIABLES heap, lastOp, ws, cli

vars == <<heap, lastOp, ws, cli>>

(***************************************************************************)
(* Bounds of the model.                                                    *)
(***************************************************************************)
MaxEdges == 2
MaxNodeObjs == 2 * 3 + 2
MaxEdgeObjs == 2 * MaxEdges + 2
MaxGraphs == 1 + 1
MaxSubOps == 2
MaxHistory == 2
MaxNesting == 3
MaxCliOps == 3
MaxCommands == 52

(***************************************************************************)
(* Python strings are sequences of one-character strings.                  *)
(***************************************************************************)
DigitChars == <<"0", "1", "2", "3", "4", "5", "6", "7", "8", "9">>
UpperChars == <<"A", "B", "C", "D", "E", "F", "G", "H", "I", "J", "K", "L", "M",
                "N", "O", "P", "Q", "R", "S", "T", "U", "V", "W", "X", "Y", "Z">>
LowerChars == <<"a", "b", "c", "d", "e", "f", "g", "h", "i", "j", "k", "l", "m",
                "n", "o", "p", "q", "r", "s", "t", "u", "v", "w", "x", "y", "z">>
\* the characters of the model in code point order
AsciiChars == <<" ", "!", "\"", "#", "'", "+", ",", "-", ".">> \o DigitChars
              \o <<":", "<", "=", ">">> \o UpperChars \o <<"\\", "_">> \o LowerChars

Range(s) == {s[i] : i \in 1..Len(s)}
Digits == Range(DigitChars)
WordChars == Digits \cup Range(UpperChars) \cup Range(LowerChars) \cup {"_"}
Ord(c) == CHOOSE i \in 1..Len(AsciiChars) : AsciiChars[i] = c
SetMin(S) == CHOOSE x \in S : \A y \in S : x <= y
SetMax(S) == CHOOSE x \in S : \A y \in S : x >= y

\* str.lower()
LowerChar(c) ==
  IF \E i \in 1..26 : UpperChars[i] = c
  THEN LowerChars[CHOOSE i \in 1..26 : UpperChars[i] = c]
  ELSE c
Lower(s) == [i \in 1..Len(s) |-> LowerChar(s[i])]

\* str.strip()
Strip(s) ==
  LET keep == {i \in 1..Len(s) : s[i] # " "}
  IN IF keep = {} THEN <<>> ELSE SubSeq(s, SetMin(keep), SetMax(keep))

\* str.isdigit()
isdigit(s) == Len(s) > 0 /\ \A i \in 1..Len(s) : s[i] \in Digits

DigitVal(c) == (CHOOSE i \in 1..10 : DigitChars[i] = c) - 1

RECURSIVE NatOf(_)
NatOf(s) == IF Len(s) = 0 THEN 0
            ELSE 10 * NatOf(SubSeq(s, 1, Len(s) - 1)) + DigitVal(s[Len(s)])

RECURSIVE Pow10(_)
Pow10(n) == IF n = 0 THEN 1 ELSE 10 * Pow10(n - 1)

RECURSIVE NatStr(_)
NatStr(n) == IF n < 10 THEN <<DigitChars[n + 1]>>
             ELSE NatStr(n \div 10) \o <<DigitChars[(n % 10) + 1]>>

\* zero-padded decimal of width w
RECURSIVE Pad(_, _)
Pad(s, w) == IF Len(s) >= w THEN s ELSE Pad(<<"0">> \o s, w)

\* lexicographic order of strings by code point
RECURSIVE StrLess(_, _)
StrLess(a, b) ==
  IF Len(b) = 0 THEN FALSE
  ELSE IF Len(a) = 0 THEN TRUE
  ELSE IF a[1] # b[1] THEN Ord(a[1]) < Ord(b[1])
  ELSE StrLess(Tail(a), Tail(b))

(***************************************************************************)
(* Python values.  A float is the decimal m * 10^e with its sign, m        *)
(* without trailing zeros; c tells a finite float from inf and nan.        *)
(***************************************************************************)
PyNone == [k |-> "None"]
PyBool(b) == [k |-> "bool", b |-> b]
PyInt(n) == [k |-> "int", n |-> n]
PyStr(s) == [k |-> "str", s |-> s]
PyDate(y, m, d) == [k |-> "date", y |-> y, m |-> m, d |-> d]
PyNaN == [k |-> "float", c |-> "nan", neg |-> FALSE, m |-> 1, e |-> 0]
PyInf(neg) == [k |-> "float", c |-> "inf", neg |-> neg, m |-> 1, e |-> 999]
\* an object of any other class, known by the text str() gives for it
PyObject(s) == [k |-> "object", s |-> s]

\* Naturals too long for a machine word, as their decimal digits, the least
\* significant first.
RECURSIVE DigitsOf(_)
DigitsOf(n) == IF n < 10 THEN <<n>> ELSE <<n % 10>> \o DigitsOf(n \div 10)

RECURSIVE DigitsValue(_)
DigitsValue(d) == IF d = <<>> THEN 0 ELSE d[1] + 10 * DigitsValue(Tail(d))

RECURSIVE Times(_, _, _)
Times(d, n, carry) ==
  IF d = <<>> THEN (IF carry = 0 THEN <<>> ELSE DigitsOf(carry))
  ELSE <<(d[1] * n + carry) % 10>> \o Times(Tail(d), n, (d[1] * n + carry) \div 10)

RECURSIVE Plus(_, _, _)
Plus(a, b, carry) ==
  IF a = <<>> /\ b = <<>> THEN (IF carry = 0 THEN <<>> ELSE <<carry>>)
  ELSE IF a = <<>> THEN Plus(<<0>>, b, carry)
  ELSE IF b = <<>> THEN Plus(a, <<0>>, carry)
  ELSE <<(a[1] + b[1] + carry) % 10>> \o Plus(Tail(a), Tail(b), (a[1] + b[1] + carry) \div 10)

Shifted(d, z) == [i \in 1..z |-> 0] \o d
Dropped(d, z) == SubSeq(d, z + 1, Len(d))
Product(d, n) == Plus(Times(d, n % 100000, 0), Shifted(Times(d, n \div 100000, 0), 5), 0)

RECURSIVE Trimmed(_)
Trimmed(d) == IF d # <<>> /\ d[Len(d)] = 0 THEN Trimmed(SubSeq(d, 1, Len(d) - 1)) ELSE d

RECURSIVE LessFrom(_, _, _)
LessFrom(a, b, i) == IF i = 0 THEN FALSE
                     ELSE IF a[i] # b[i] THEN a[i] < b[i]
                     ELSE LessFrom(a, b, i - 1)
DigitsLess(a, b) == IF Len(Trimmed(a)) # Len(Trimmed(b)) THEN Len(Trimmed(a)) < Len(Trimmed(b))
                    ELSE LessFrom(Trimmed(a), Trimmed(b), Len(Trimmed(a)))

\* Below 2.2250738585072014e-308 the doubles are the multiples of the step
\* 2^-1074 = 4.94...e-324.  In units of 1e-324, with StepPlaces decimal places:
\* the step, half of it, and the number of steps in one unit.
Step ==
  <<5, 0, 5, 6, 3, 2, 7, 3, 1, 2, 2, 8, 6, 8,
     2, 9, 7, 8, 6, 5, 6, 7, 1, 4, 4, 5, 6, 4,
     2, 1, 4, 8, 5, 4, 6, 5, 6, 0, 4, 9, 4>>
HalfStep ==
  <<2, 5, 2, 8, 1, 6, 8, 6, 0, 1, 1, 4, 3, 4,
     6, 9, 3, 4, 8, 2, 8, 8, 0, 2, 7, 2, 3, 2,
     6, 0, 2, 9, 2, 2, 8, 2, 3, 0, 7, 4, 2>>
StepsPerUnit ==
  <<5, 9, 4, 0, 7, 0, 3, 7, 1, 9, 8, 1, 7, 6,
     4, 3, 5, 9, 4, 2, 5, 3, 8, 1, 6, 0, 1, 3,
     7, 0, 3, 3, 5, 2, 2, 0, 4, 2, 0, 2>>
StepPlaces == Len(StepsPerUnit)

Half(places) == Shifted(<<5>>, places - 1)
\* the natural nearest to a number written with that many decimal places
Nearest(d, places) == DigitsValue(Dropped(Plus(d, Half(places), 0), places))

\* the number of steps nearest to m * 10^e, for e <= -324
NearestStep(m, e) == Nearest(Product(StepsPerUnit, m), StepPlaces + (0 - 324 - e))

RECURSIVE Stripped(_, _, _)
Stripped(neg, m, e) ==
  IF m % 10 = 0 THEN Stripped(neg, m \div 10, e + 1)
  ELSE [k |-> "float", c |-> "finite", neg |-> neg, m |-> m, e |-> e]

\* the decimal that stands for the double of k steps: the shortest one that
\* is nearer to it than to its neighbours, which is the multiple of 10 units
\* within half a step of it when there is one, and the nearest unit otherwise
ShortestUnits(k, t, tens) ==
  IF /\ DigitsLess(Product(HalfStep, 2 * k - 1), Shifted(DigitsOf(tens), StepPlaces))
     /\ DigitsLess(Shifted(DigitsOf(tens), StepPlaces), Product(HalfStep, 2 * k + 1))
  THEN tens
  ELSE Nearest(t, StepPlaces)
StepsFloat(neg, k) ==
  IF k = 0 THEN [k |-> "float", c |-> "finite", neg |-> neg, m |-> 0, e |-> 0]
  ELSE Stripped(neg, ShortestUnits(k, Product(Step, k),
                                   10 * Nearest(Product(Step, k), StepPlaces + 1)),
                0 - 324)

\* the float nearest to m * 10^e: beyond the largest double it is inf, below
\* half the smallest it is zero, and a decimal finer than 1e-323 is rounded to
\* the nearest multiple of the smallest double
RECURSIVE PyFloat(_, _, _)
PyFloat(neg, m, e) ==
  IF m = 0 THEN [k |-> "float", c |-> "finite", neg |-> neg, m |-> 0, e |-> 0]
  ELSE IF m % 10 = 0 THEN PyFloat(neg, m \div 10, e + 1)
  ELSE IF \/ Len(NatStr(m)) + e > 309
          \/ /\ Len(NatStr(m)) + e = 309
             /\ StrLess(<<"1", "7", "9", "7", "6", "9", "3", "1", "3", "4">>, NatStr(m))
  THEN PyInf(neg)
  ELSE IF Len(NatStr(m)) + e < 0 - 323 THEN PyFloat(neg, 0, 0)
  ELSE IF e < 0 - 323 THEN StepsFloat(neg, NearestStep(m, e))
  ELSE [k |-> "float", c |-> "finite", neg |-> neg, m |-> m, e |-> e]

\* outcome of a call: a returned value or a raised exception
Ret(v) == [exc |-> "none", val |-> v]
Raise(e) == [exc |-> e]

\* a numeral without its sign, and whether the sign is a minus
Unsigned(t) == IF Len(t) > 0 /\ t[1] \in {"+", "-"} THEN Tail(t) ELSE t
Negative(t) == Len(t) > 0 /\ t[1] = "-"
Signed(neg, n) == IF neg THEN 0 - n ELSE n

\* digits, with single underscores allowed between them
IsDigit(c) == c \in Digits
DigitGroup(t) ==
  /\ Len(t) > 0 /\ t[1] \in Digits /\ t[Len(t)] \in Digits
  /\ \A i \in 1..Len(t) : t[i] \in Digits \cup {"_"}
  /\ \A i \in 1..(Len(t) - 1) : ~(t[i] = "_" /\ t[i + 1] = "_")
GroupValue(t) == NatOf(SelectSeq(t, IsDigit))

\* int(str): optional blanks, optional sign, a digit group
int_of_str(s) ==
  IF DigitGroup(Unsigned(Strip(s)))
  THEN Ret(PyInt(Signed(Negative(Strip(s)), GroupValue(Unsigned(Strip(s))))))
  ELSE Raise("ValueError")

\* the first position of t holding a character of S, Len(t) + 1 if none
FirstIn(t, S) ==
  IF \E i \in 1..Len(t) : t[i] \in S
  THEN SetMin({i \in 1..Len(t) : t[i] \in S})
  ELSE Len(t) + 1

\* the parts of an unsigned decimal numeral: mantissa and exponent around
\* the first e, integer and fraction digits around the first point
MantissaPart(body) == SubSeq(body, 1, FirstIn(body, {"e", "E"}) - 1)
ExponentPart(body) == SubSeq(body, FirstIn(body, {"e", "E"}) + 1, Len(body))
IntPart(body) == SubSeq(MantissaPart(body), 1, FirstIn(MantissaPart(body), {"."}) - 1)
FracPart(body) ==
  SubSeq(MantissaPart(body), FirstIn(MantissaPart(body), {"."}) + 1, Len(MantissaPart(body)))

decimal(neg, ip, fp, has_exp, ex) ==
  IF /\ Len(ip) + Len(fp) > 0
     /\ ip = <<>> \/ DigitGroup(ip)
     /\ fp = <<>> \/ DigitGroup(fp)
     /\ has_exp => DigitGroup(Unsigned(ex))
  THEN Ret(PyFloat(neg, NatOf(SelectSeq(ip, IsDigit) \o SelectSeq(fp, IsDigit)),
                   (IF has_exp THEN Signed(Negative(ex), GroupValue(Unsigned(ex))) ELSE 0)
                     - Len(SelectSeq(fp, IsDigit))))
  ELSE Raise("ValueError")

float_of_body(neg, body) ==
  IF Lower(body) \in {<<"i", "n", "f">>, <<"i", "n", "f", "i", "n", "i", "t", "y">>}
  THEN Ret(PyInf(neg))
  ELSE IF Lower(body) = <<"n", "a", "n">> THEN Ret(PyNaN)
  ELSE decimal(neg, IntPart(body), FracPart(body),
               FirstIn(body, {"e", "E"}) <= Len(body), ExponentPart(body))

\* float(str): optional blanks, optional sign, then inf, infinity, nan or
\* a decimal numeral with an optional exponent
float_of_str(s) == float_of_body(Negative(Strip(s)), Unsigned(Strip(s)))

\* int(float)
int_of_float(v) ==
  IF v.c = "nan" THEN Raise("ValueError")
  ELSE IF v.c = "inf" THEN Raise("OverflowError")
  ELSE Ret(PyInt(Signed(v.neg, IF v.e >= 0 THEN v.m * Pow10(v.e)
                               ELSE IF v.e < 0 - 9 THEN 0
                               ELSE v.m \div Pow10(0 - v.e))))

\* repr(float) of the finite float with digits d, exponent e and leading
\* digit worth 10^x
Zeros(n) == [i \in 1..n |-> "0"]
finite_repr(d, e, x) ==
  IF d = <<"0">> THEN <<"0", ".", "0">>
  ELSE IF x < 0 - 4 \/ x >= 16
  THEN <<d[1]>> \o (IF Len(d) > 1 THEN <<".">> \o Tail(d) ELSE <<>>) \o <<"e">>
       \o (IF x < 0 THEN <<"-">> \o Pad(NatStr(0 - x), 2) ELSE <<"+">> \o Pad(NatStr(x), 2))
  ELSE IF e >= 0 THEN d \o Zeros(e) \o <<".", "0">>
  ELSE IF x >= 0 THEN SubSeq(d, 1, x + 1) \o <<".">> \o SubSeq(d, x + 2, Len(d))
  ELSE <<"0", ".">> \o Zeros((0 - x) - 1) \o d

float_repr(v) ==
  IF v.c = "nan" THEN <<"n", "a", "n">>
  ELSE (IF v.neg THEN <<"-">> ELSE <<>>)
       \o (IF v.c = "inf" THEN <<"i", "n", "f">>
           ELSE finite_repr(NatStr(v.m), v.e, Len(NatStr(v.m)) - 1 + v.e))

(***************************************************************************)
(* datetime.fromisoformat(str).date()                                      *)
(***************************************************************************)
IsLeap(y) == (y % 4 = 0 /\ y % 100 # 0) \/ y % 400 = 0
DaysInMonth(y, m) ==
  IF m = 2 THEN (IF IsLeap(y) THEN 29 ELSE 28)
  ELSE IF m \in {4, 6, 9, 11} THEN 30 ELSE 31

DaysBeforeYear(y) == (y - 1) * 365 + (y - 1) \div 4 - (y - 1) \div 100 + (y - 1) \div 400
RECURSIVE DaysBeforeMonth(_, _)
DaysBeforeMonth(y, m) ==
  IF m = 1 THEN 0 ELSE DaysBeforeMonth(y, m - 1) + DaysInMonth(y, m - 1)
LastOrdinal == DaysBeforeYear(9999 + 1)

\* the date of a proleptic Gregorian ordinal, day 1 being 0001-01-01
YearOf(n) ==
  CHOOSE y \in (n \div 366)..(n \div 365 + 1) :
    y >= 1 /\ DaysBeforeYear(y) < n /\ n <= DaysBeforeYear(y + 1)
MonthOf(y, r) ==
  CHOOSE m \in 1..12 : DaysBeforeMonth(y, m) < r /\ r <= DaysBeforeMonth(y, m) + DaysInMonth(y, m)
day_of_year(y, r) == PyDate(y, MonthOf(y, r), r - DaysBeforeMonth(y, MonthOf(y, r)))
fromordinal(n) ==
  IF n < 1 \/ n > LastOrdinal THEN Raise("ValueError")
  ELSE Ret(day_of_year(YearOf(n), n - DaysBeforeYear(YearOf(n))))

\* the Monday of ISO week 1 of year y
isoweek1monday(y) ==
  (DaysBeforeYear(y) + 1) - ((DaysBeforeYear(y) + 7) % 7)
  + (IF (DaysBeforeYear(y) + 7) % 7 > 3 THEN 7 ELSE 0)

\* years of 53 ISO weeks
LongYear(y) ==
  \/ (DaysBeforeYear(y) + 1) % 7 = 4
  \/ (DaysBeforeYear(y) + 1) % 7 = 3 /\ IsLeap(y)

isoweek_to_gregorian(y, w, d) ==
  IF y < 1 \/ ~(w \in 1..52 \/ (w = 53 /\ LongYear(y))) \/ d \notin 1..7
  THEN Raise("ValueError")
  ELSE fromordinal(isoweek1monday(y) + (w - 1) * 7 + (d - 1))

calendar_date(y, m, d) ==
  IF y \in 1..9999 /\ m \in 1..12 /\ d >= 1 /\ d <= DaysInMonth(y, m)
  THEN Ret(PyDate(y, m, d))
  ELSE Raise("ValueError")

\* the character of s at i, the empty string past its end
CharAt(s, i) == IF i >= 1 /\ i <= Len(s) THEN s[i] ELSE ""

\* the number written by the n digits of s from i on, -1 if they are not
\* n digits
DigitsAt(s, i, n) ==
  IF n >= 1 /\ i + n - 1 <= Len(s) /\ \A j \in i..(i + n - 1) : s[j] \in Digits
  THEN NatOf(SubSeq(s, i, i + n - 1))
  ELSE 0 - 1

\* the first position from i on that holds no digit
RECURSIVE DigitRunEnd(_, _)
DigitRunEnd(s, i) == IF i <= Len(s) /\ s[i] \in Digits THEN DigitRunEnd(s, i + 1) ELSE i

\* the length of the date at the head of a string of seven characters or
\* more, 0 for none
date_length(s) ==
  IF Len(s) = 7 THEN 7
  ELSE IF s[5] = "-"
  THEN IF s[6] = "W"
       THEN IF Len(s) > 8 /\ s[9] = "-"
            THEN IF Len(s) = 9 THEN 0
                 ELSE IF Len(s) > 10 /\ s[11] \in Digits THEN 8
                 ELSE 10
            ELSE 8
       ELSE 10
  ELSE IF s[5] = "W"
  THEN IF DigitRunEnd(s, 8) - 1 < 9 THEN DigitRunEnd(s, 8) - 1
       ELSE IF (DigitRunEnd(s, 8) - 1) % 2 = 0 THEN 7
       ELSE 8
  ELSE 8

\* the week date YYYY[-]Www[[-]D] with the week number at p
iso_week_date(s, n, y, sep, p) ==
  IF DigitsAt(s, p, 2) < 0 THEN Raise("ValueError")
  ELSE IF p + 2 > n THEN isoweek_to_gregorian(y, DigitsAt(s, p, 2), 1)
  ELSE IF sep /\ CharAt(s, p + 2) # "-" THEN Raise("ValueError")
  ELSE IF DigitsAt(s, p + 2 + (IF sep THEN 1 ELSE 0), 1) < 0 THEN Raise("ValueError")
  ELSE isoweek_to_gregorian(y, DigitsAt(s, p, 2),
                            DigitsAt(s, p + 2 + (IF sep THEN 1 ELSE 0), 1))

\* the calendar date YYYY[-]MM[-]DD with the month at p
iso_calendar_date(s, y, sep, p) ==
  IF \/ DigitsAt(s, p, 2) < 0
     \/ sep /\ CharAt(s, p + 2) # "-"
     \/ DigitsAt(s, p + 2 + (IF sep THEN 1 ELSE 0), 2) < 0
  THEN Raise("ValueError")
  ELSE calendar_date(y, DigitsAt(s, p, 2), DigitsAt(s, p + 2 + (IF sep THEN 1 ELSE 0), 2))

iso_date_at(s, n, sep, p) ==
  IF CharAt(s, p) = "W" THEN iso_week_date(s, n, DigitsAt(s, 1, 4), sep, p + 1)
  ELSE iso_calendar_date(s, DigitsAt(s, 1, 4), sep, p)

\* the date written by the first n characters of s
parse_isoformat_date(s, n) ==
  IF DigitsAt(s, 1, 4) < 0 THEN Raise("ValueError")
  ELSE iso_date_at(s, n, CharAt(s, 5) = "-", IF CharAt(s, 5) = "-" THEN 6 ELSE 5)

\* the fraction of seconds of the first n characters of full from p + 1
\* on: one to six digits are read and further digits passed over; rest
\* tells whether full goes on after them
fraction(full, n, p, v) ==
  IF n - p <= 0 \/ DigitsAt(SubSeq(full, 1, n), p + 1, IF n - p >= 6 THEN 6 ELSE n - p) < 0
  THEN [ok |-> FALSE]
  ELSE [ok |-> TRUE, v |-> v,
        rest |-> DigitRunEnd(full, p + 1 + (IF n - p >= 6 THEN 6 ELSE n - p)) <= Len(full)]

\* HH[[:]MM[[:]SS[(.|,)f+]]] in the first n characters of full; i counts
\* the components read, p the characters, has tells whether colons
\* separate them
RECURSIVE parse_hh_mm_ss_ff(_, _, _, _, _, _), after_component(_, _, _, _, _, _, _)
parse_hh_mm_ss_ff(full, n, i, p, has, v) ==
  IF DigitsAt(SubSeq(full, 1, n), p + 1, 2) < 0 THEN [ok |-> FALSE]
  ELSE after_component(full, n, i, p + 3,
                       IF i = 0 THEN CharAt(full, p + 3) = ":" ELSE has,
                       [v EXCEPT ![i + 1] = DigitsAt(full, p + 1, 2)],
                       CharAt(full, p + 3))

after_component(full, n, i, p, has, v, c) ==
  IF p >= n THEN [ok |-> TRUE, v |-> v, rest |-> c # ""]
  ELSE IF has /\ c = ":"
  THEN (IF i = 2 THEN fraction(full, n, p, v) ELSE parse_hh_mm_ss_ff(full, n, i + 1, p, has, v))
  ELSE IF c \in {".", ","} THEN fraction(full, n, p, v)
  ELSE IF ~has
  THEN (IF i = 2 THEN fraction(full, n, p - 1, v)
        ELSE parse_hh_mm_ss_ff(full, n, i + 1, p - 1, has, v))
  ELSE [ok |-> FALSE]

\* the UTC offset after the sign is a time of day below 24 hours
offset_valid(r) ==
  r.ok /\ ~r.rest /\ r.v[1] * 3600 + r.v[2] * 60 + r.v[3] < 86400

\* whether t is a time with an optional offset; tz is the position of the
\* first Z, + or - of t and r the time read before it
time_valid(t, tz, r) ==
  /\ r.ok /\ r.v[1] < 24 /\ r.v[2] < 60 /\ r.v[3] < 60
  /\ IF tz > Len(t) THEN ~r.rest
     ELSE IF t[tz] = "Z" THEN tz = Len(t)
     ELSE offset_valid(parse_hh_mm_ss_ff(SubSeq(t, tz + 1, Len(t)), Len(t) - tz, 0, 0,
                                         TRUE, <<0, 0, 0>>))

parse_isoformat_time(t) ==
  time_valid(t, FirstIn(t, {"Z", "+", "-"}),
             parse_hh_mm_ss_ff(SubSeq(t, 1, SetMin({Len(t), FirstIn(t, {"Z", "+", "-"})})),
                               FirstIn(t, {"Z", "+", "-"}) - 1, 0, 0, TRUE, <<0, 0, 0>>))

\* the date, then any one character and a time
date_and_time(s, n) ==
  IF n = 0 THEN Raise("ValueError")
  ELSE IF parse_isoformat_date(s, n).exc # "none" THEN Raise("ValueError")
  ELSE IF Len(s) > n /\ ~parse_isoformat_time(SubSeq(s, n + 2, Len(s))) THEN Raise("ValueError")
  ELSE parse_isoformat_date(s, n)

\* datetime.fromisoformat(str).date()
date_of_str(s) ==
  IF Len(s) < 7 THEN Raise("ValueError") ELSE date_and_time(s, date_length(s))

\* str(value)
str_of(v) ==
  CASE v.k = "str" -> v.s
    [] v.k = "None" -> <<"N", "o", "n", "e">>
    [] v.k = "object" -> v.s
    [] v.k = "bool" -> IF v.b THEN <<"T", "r", "u", "e">> ELSE <<"F", "a", "l", "s", "e">>
    [] v.k = "int" -> IF v.n < 0 THEN <<"-">> \o NatStr(0 - v.n) ELSE NatStr(v.n)
    [] v.k = "float" -> float_repr(v)
    [] v.k = "date" ->
         Pad(NatStr(v.y), 4) \o <<"-">> \o Pad(NatStr(v.m), 2) \o <<"-">> \o Pad(NatStr(v.d), 2)

(***************************************************************************)
(* TypeValidator                                                           *)
(***************************************************************************)
detect_type(value) ==
  CASE value.k = "bool" -> "BOOL"
    [] value.k = "int" -> "INT"
    [] value.k = "float" -> "FLOAT"
    [] value.k = "date" -> "DATE"
    [] value.k = "str" ->
         IF isdigit(value.s) THEN "INT"
         ELSE IF float_of_str(value.s).exc = "none" THEN "FLOAT"
         ELSE IF date_of_str(value.s).exc = "none" THEN "DATE"
         ELSE "STR"
    [] OTHER -> "STR"

convert_to_type(value, target_type) ==
  CASE target_type = "INT" ->
         CASE value.k = "str" -> int_of_str(value.s)
           [] value.k = "int" -> Ret(value)
           [] value.k = "bool" -> Ret(PyInt(IF value.b THEN 1 ELSE 0))
           [] value.k = "float" -> int_of_float(value)
           [] OTHER -> Raise("TypeError")
    [] target_type = "FLOAT" ->
         CASE value.k = "str" -> float_of_str(value.s)
           [] value.k = "float" -> Ret(value)
           [] value.k = "int" -> Ret(PyFloat(value.n < 0, Signed(value.n < 0, value.n), 0))
           [] value.k = "bool" -> Ret(PyFloat(FALSE, IF value.b THEN 1 ELSE 0, 0))
           [] OTHER -> Raise("TypeError")
    [] target_type = "DATE" ->
         IF value.k = "str" THEN date_of_str(value.s) ELSE Ret(value)
    [] target_type = "BOOL" ->
         CASE value.k = "str" ->
                Ret(PyBool(Lower(value.s) \in {<<"t", "r", "u", "e">>, <<"1">>, <<"y", "e", "s">>}))
           [] value.k = "bool" -> Ret(value)
           [] value.k = "int" -> Ret(PyBool(value.n # 0))
           [] value.k = "float" -> Ret(PyBool(value.m # 0))
           [] value.k = "None" -> Ret(PyBool(FALSE))
           [] OTHER -> Ret(PyBool(TRUE))
    [] OTHER -> Ret(PyStr(str_of(value)))

\* "except (ValueError, TypeError) as e: raise ValueError(...)"
as_value_error(r) == IF r.exc \in {"ValueError", "TypeError"} THEN Raise("ValueError") ELSE r

validate_and_convert(value, target_type) ==
  as_value_error(convert_to_type(value, target_type))

\* Python numbers (int, float, bool) as floats
IsNum(v) == v.k \in {"int", "float", "bool"}
NumOf(v) == CASE v.k = "int" -> PyFloat(v.n < 0, Signed(v.n < 0, v.n), 0)
              [] v.k = "bool" -> PyFloat(FALSE, IF v.b THEN 1 ELSE 0, 0)
              [] v.k = "float" -> v

\* |a| < |b|
MagLess(a, b) ==
  IF b.m = 0 THEN FALSE
  ELSE IF a.m = 0 THEN TRUE
  ELSE IF Len(NatStr(a.m)) + a.e # Len(NatStr(b.m)) + b.e
  THEN Len(NatStr(a.m)) + a.e < Len(NatStr(b.m)) + b.e
  ELSE StrLess(NatStr(a.m), NatStr(b.m))

Below(v) == v.neg /\ v.m # 0

NumLess(a, b) ==
  IF a.c = "nan" \/ b.c = "nan" THEN FALSE
  ELSE IF Below(a) # Below(b) THEN Below(a)
  ELSE IF Below(a) THEN MagLess(b, a)
  ELSE MagLess(a, b)

NumEq(a, b) ==
  /\ a.c # "nan" /\ b.c # "nan"
  /\ a.m = b.m /\ a.e = b.e
  /\ a.m = 0 \/ a.neg = b.neg

\* a < b for two values that Python orders
PyLess(a, b) ==
  CASE IsNum(a) -> NumLess(NumOf(a), NumOf(b))
    [] a.k = "str" -> StrLess(a.s, b.s)
    [] a.k = "date" -> \/ a.y < b.y
                       \/ a.y = b.y /\ a.m < b.m
                       \/ a.y = b.y /\ a.m = b.m /\ a.d < b.d

PyEq(a, b) ==
  IF IsNum(a) /\ IsNum(b) THEN NumEq(NumOf(a), NumOf(b)) ELSE a = b

Orderable(a, b) ==
  \/ IsNum(a) /\ IsNum(b)
  \/ a.k = b.k /\ a.k \in {"str", "date"}

compare(value1, value2, operator) ==
  IF operator \notin {"==", "!=", "<", "<=", ">", ">="} THEN Raise("ValueError")
  ELSE IF operator = "==" THEN Ret(PyEq(value1, value2))
  ELSE IF operator = "!=" THEN Ret(~PyEq(value1, value2))
  ELSE IF ~Orderable(value1, value2) THEN Raise("TypeError")
  ELSE Ret(CASE operator = "<" -> PyLess(value1, value2)
             [] operator = "<=" -> PyLess(value1, value2) \/ PyEq(value1, value2)
             [] operator = ">" -> PyLess(value2, value1)
             [] operator = ">=" -> PyLess(value2, value1) \/ PyEq(value1, value2))

(***************************************************************************)
(* The heap: one slot per Python object.  heap.node, heap.edge and         *)
(* heap.graph map references (slot numbers) to objects or to Free.         *)
(***************************************************************************)
Free == [kind |-> "free"]
NodeRefs == 1..MaxNodeObjs
EdgeRefs == 1..MaxEdgeObjs
GraphRefs == 1..MaxGraphs
EmptyHeap == [node |-> [r \in NodeRefs |-> Free],
              edge |-> [r \in EdgeRefs |-> Free],
              graph |-> [r \in GraphRefs |-> Free]]

FreeSlots(f) == {r \in DOMAIN f : f[r].kind = "free"}
NewRef(f) == SetMin(FreeSlots(f))

\* a dict value: keys to values, no order kept
EmptyMap == [x \in {} |-> x]
Put(f, key, v) == [x \in DOMAIN f \cup {key} |-> IF x = key THEN v ELSE f[x]]
Del(f, key) == [x \in DOMAIN f \ {key} |-> f[x]]

\* an insertion-ordered dict of object references: a sequence of [key, ref]
DictKeys(d) == {d[i].key : i \in 1..Len(d)}
DictHas(d, key) == \E i \in 1..Len(d) : d[i].key = key
DictGet(d, key) == d[CHOOSE i \in 1..Len(d) : d[i].key = key].ref
DictPut(d, key, ref) ==
  IF DictHas(d, key)
  THEN [i \in 1..Len(d) |-> IF d[i].key = key THEN [key |-> key, ref |-> ref] ELSE d[i]]
  ELSE Append(d, [key |-> key, ref |-> ref])
DictDel(d, key) == SelectSeq(d, LAMBDA kv : kv.key # key)

(***************************************************************************)
(* Node                                                                    *)
(***************************************************************************)
\* the two assignments that end set_attribute
store_attribute(n, key, converted, detected_type) ==
  IF converted.exc # "none" THEN Raise(converted.exc)
  ELSE Ret([n EXCEPT !.attributes = Put(@, key, converted.val),
                     !.attribute_types = Put(@, key, detected_type)])

\* Node.set_attribute on a node object
Node_set_attribute(n, key, value) ==
  IF value.k = "None"
  THEN Ret([n EXCEPT !.attributes = Put(@, key, PyNone),
                     !.attribute_types = Put(@, key, "STR")])
  ELSE store_attribute(n, key, validate_and_convert(value, detect_type(value)),
                       detect_type(value))

\* Node.update_attribute
Node_update_attribute(n, key, value) == Node_set_attribute(n, key, value)

\* a delete_attribute that forgets the type tag
Node_delete_attribute_value_only(n, key) ==
  IF key \in DOMAIN n.attributes
  THEN [n EXCEPT !.attributes = Del(@, key)]
  ELSE n

\* Node.delete_attribute
Node_delete_attribute(n, key) ==
  IF key \in DOMAIN n.attributes
  THEN [n EXCEPT !.attributes = Del(@, key), !.attribute_types = Del(@, key)]
  ELSE n

Pick(S) == CHOOSE x \in S : TRUE

\* the loop of a constructor over its keyword arguments
RECURSIVE set_attributes(_, _, _), set_attributes_after(_, _, _)
set_attributes(obj, kwargs, keys) ==
  IF keys = {} THEN Ret(obj)
  ELSE set_attributes_after(Node_set_attribute(obj, Pick(keys), kwargs[Pick(keys)]),
                            kwargs, keys \ {Pick(keys)})

set_attributes_after(r, kwargs, keys) ==
  IF r.exc # "none" THEN r ELSE set_attributes(r.val, kwargs, keys)

NodeParams == {<<"s", "e", "l", "f">>, <<"n", "o", "d", "e", "_", "i", "d">>}

\* Node(node_id, **attributes)
Node_init(node_id, attributes) ==
  IF DOMAIN attributes \cap NodeParams # {} THEN Raise("TypeError")
  ELSE set_attributes([kind |-> "node", node_id |-> node_id,
                       attributes |-> EmptyMap, attribute_types |-> EmptyMap],
                      attributes, DOMAIN attributes)

(***************************************************************************)
(* Edge                                                                    *)
(***************************************************************************)
Edge_set_attribute(e, key, value) == Node_set_attribute(e, key, value)

Edge_update_attribute(e, key, value) == Edge_set_attribute(e, key, value)

Edge_delete_attribute(e, key) == Node_delete_attribute(e, key)

EdgeParams == {<<"s", "e", "l", "f">>,
               <<"e", "d", "g", "e", "_", "i", "d">>,
               <<"s", "o", "u", "r", "c", "e", "_", "n", "o", "d", "e">>,
               <<"t", "a", "r", "g", "e", "t", "_", "n", "o", "d", "e">>,
               <<"d", "i", "r", "e", "c", "t", "i", "o", "n">>}

\* Edge(edge_id, source_node, target_node, direction, **attributes)
Edge_init(edge_id, source_node, target_node, direction, attributes) ==
  IF DOMAIN attributes \cap EdgeParams # {} THEN Raise("TypeError")
  ELSE set_attributes([kind |-> "edge", edge_id |-> edge_id,
                       source_node |-> source_node, target_node |-> target_node,
                       direction |-> direction,
                       attributes |-> EmptyMap, attribute_types |-> EmptyMap],
                      attributes, DOMAIN attributes)

\* ids of the endpoints of an edge object
SourceId(H, e) == H.node[e.source_node].node_id
TargetId(H, e) == H.node[e.target_node].node_id

\* Edge.get_other_node: the reference of the other end, 0 for None
get_other_node(H, e, node_id) ==
  IF node_id = SourceId(H, e) THEN e.target_node
  ELSE IF node_id = TargetId(H, e) THEN e.source_node
  ELSE 0

(***************************************************************************)
(* Graph                                                                   *)
(***************************************************************************)
\* Graph(graph_id)
Graph_init(graph_id) ==
  [kind |-> "graph", graph_id |-> graph_id, nodes |-> <<>>, edges |-> <<>>,
   adjacency_list |-> EmptyMap]

\* outcome of a method on the heap
Done(H) == [exc |-> "none", heap |-> H]
Fail(H, e) == [exc |-> e, heap |-> H]

add_node(H, g, nref) ==
  LET G == H.graph[g]
      node_id == H.node[nref].node_id
  IN IF DictHas(G.nodes, node_id) THEN Fail(H, "ValueError")
     ELSE Done([H EXCEPT !.graph[g].nodes = DictPut(@, node_id, nref),
                         !.graph[g].adjacency_list = Put(@, node_id, <<>>)])

\* add_edge without the self-loop test: the edge is appended for both ends
add_edge_both_ends(H, g, eref) ==
  LET G == H.graph[g]
      edge == H.edge[eref]
      s_id == SourceId(H, edge)
      t_id == TargetId(H, edge)
  IN IF ~DictHas(G.nodes, s_id) THEN Fail(H, "ValueError")
     ELSE IF ~DictHas(G.nodes, t_id) THEN Fail(H, "ValueError")
     ELSE IF DictHas(G.edges, edge.edge_id) THEN Fail(H, "ValueError")
     ELSE LET adj1 == [G.adjacency_list EXCEPT ![s_id] = Append(@, eref)]
              adj2 == [adj1 EXCEPT ![t_id] = Append(@, eref)]
          IN Done([H EXCEPT !.graph[g].edges = DictPut(@, edge.edge_id, eref),
                            !.graph[g].adjacency_list = adj2])

\* add_edge that registers the edge at its source before it tests the target
add_edge_late_check(H, g, eref) ==
  LET G == H.graph[g]
      edge == H.edge[eref]
      s_id == SourceId(H, edge)
      t_id == TargetId(H, edge)
  IN IF ~DictHas(G.nodes, s_id) THEN Fail(H, "ValueError")
     ELSE IF DictHas(G.edges, edge.edge_id) THEN Fail(H, "ValueError")
     ELSE LET adj1 == [G.adjacency_list EXCEPT ![s_id] = Append(@, eref)]
              H1 == [H EXCEPT !.graph[g].edges = DictPut(@, edge.edge_id, eref),
                              !.graph[g].adjacency_list = adj1]
          IN IF ~DictHas(G.nodes, t_id) THEN Fail(H1, "ValueError")
             ELSE IF s_id # t_id
             THEN Done([H1 EXCEPT !.graph[g].adjacency_list[t_id] = Append(@, eref)])
             ELSE Done(H1)

add_edge(H, g, eref) ==
  LET G == H.graph[g]
      edge == H.edge[eref]
      s_id == SourceId(H, edge)
      t_id == TargetId(H, edge)
  IN IF ~DictHas(G.nodes, s_id) THEN Fail(H, "ValueError")
     ELSE IF ~DictHas(G.nodes, t_id) THEN Fail(H, "ValueError")
     ELSE IF DictHas(G.edges, edge.edge_id) THEN Fail(H, "ValueError")
     ELSE LET adj1 == [G.adjacency_list EXCEPT ![s_id] = Append(@, eref)]
              adj2 == IF s_id # t_id THEN [adj1 EXCEPT ![t_id] = Append(@, eref)] ELSE adj1
          IN Done([H EXCEPT !.graph[g].edges = DictPut(@, edge.edge_id, eref),
                            !.graph[g].adjacency_list = adj2])

get_node(H, g, node_id) ==
  IF DictHas(H.graph[g].nodes, node_id) THEN DictGet(H.graph[g].nodes, node_id) ELSE 0

get_edge(H, g, edge_id) ==
  IF DictHas(H.graph[g].edges, edge_id) THEN DictGet(H.graph[g].edges, edge_id) ELSE 0

\* self._adjacency_list.get(node_id, [])
AdjOf(G, node_id) ==
  IF node_id \in DOMAIN G.adjacency_list THEN G.adjacency_list[node_id] ELSE <<>>

\* get_outgoing_edges that takes an edge only from its source
get_outgoing_edges_source_only(H, g, node_id) ==
  SelectSeq(AdjOf(H.graph[g], node_id), LAMBDA r : SourceId(H, H.edge[r]) = node_id)

get_outgoing_edges(H, g, node_id) ==
  SelectSeq(AdjOf(H.graph[g], node_id),
            LAMBDA r : \/ SourceId(H, H.edge[r]) = node_id
                       \/ /\ H.edge[r].direction = "UNDIRECTED"
                          /\ TargetId(H, H.edge[r]) = node_id)

get_incoming_edges(H, g, node_id) ==
  SelectSeq(AdjOf(H.graph[g], node_id),
            LAMBDA r : \/ TargetId(H, H.edge[r]) = node_id
                       \/ /\ H.edge[r].direction = "UNDIRECTED"
                          /\ SourceId(H, H.edge[r]) = node_id)

\* remove_edge that raises on an absent id
remove_edge_strict(H, g, edge_id) ==
  LET G == H.graph[g]
  IN IF ~DictHas(G.edges, edge_id) THEN Fail(H, "ValueError")
     ELSE LET edge == H.edge[DictGet(G.edges, edge_id)]
              s_id == SourceId(H, edge)
              t_id == TargetId(H, edge)
              keep(l) == SelectSeq(l, LAMBDA r : H.edge[r].edge_id # edge_id)
              adj1 == [G.adjacency_list EXCEPT ![s_id] = keep(@)]
              adj2 == [adj1 EXCEPT ![t_id] = keep(@)]
          IN Done([H EXCEPT !.graph[g].adjacency_list = adj2,
                            !.graph[g].edges = DictDel(@, edge_id)])

remove_edge(H, g, edge_id) ==
  LET G == H.graph[g]
  IN IF ~DictHas(G.edges, edge_id) THEN Done(H)
     ELSE LET edge == H.edge[DictGet(G.edges, edge_id)]
              s_id == SourceId(H, edge)
              t_id == TargetId(H, edge)
              keep(l) == SelectSeq(l, LAMBDA r : H.edge[r].edge_id # edge_id)
              adj1 == IF s_id \in DOMAIN G.adjacency_list
                      THEN [G.adjacency_list EXCEPT ![s_id] = keep(@)]
                      ELSE G.adjacency_list
              adj2 == IF t_id \in DOMAIN adj1
                      THEN [adj1 EXCEPT ![t_id] = keep(@)]
                      ELSE adj1
          IN Done([H EXCEPT !.graph[g].adjacency_list = adj2,
                            !.graph[g].edges = DictDel(@, edge_id)])

\* the loop "for edge_id in edges_to_delete: self.remove_edge(edge_id)"
RECURSIVE remove_edges(_, _, _)
remove_edges(H, g, ids) ==
  IF ids = {} THEN H
  ELSE remove_edges(remove_edge(H, g, Pick(ids)).heap, g, ids \ {Pick(ids)})

\* edges_to_delete: the ids of the edges of an adjacency list
EdgeIdSet(H, adj) == {H.edge[adj[i]].edge_id : i \in 1..Len(adj)}

\* "del self.nodes[node_id]; del self._adjacency_list[node_id]"
drop_node(H, g, node_id) ==
  Done([H EXCEPT !.graph[g].nodes = DictDel(@, node_id),
                 !.graph[g].adjacency_list = Del(@, node_id)])

\* remove_node that deletes only the edges leaving the node
remove_node_outgoing(H, g, node_id) ==
  LET G == H.graph[g]
  IN IF ~DictHas(G.nodes, node_id) THEN Fail(H, "ValueError")
     ELSE drop_node(remove_edges(H, g, EdgeIdSet(H, get_outgoing_edges(H, g, node_id))),
                    g, node_id)

remove_node(H, g, node_id) ==
  LET G == H.graph[g]
  IN IF ~DictHas(G.nodes, node_id) THEN Fail(H, "ValueError")
     ELSE drop_node(remove_edges(H, g, EdgeIdSet(H, AdjOf(G, node_id))), g, node_id)

(***************************************************************************)
(* Graph.has_cycle: the depth-first search with its three collections.     *)
(* st is [found, visited, rec_stack, parent_map]; a parent is a set, empty *)
(* for None.                                                               *)
(***************************************************************************)
RECURSIVE dfs(_, _, _, _, _), dfs_edges(_, _, _, _, _, _, _)
dfs(H, g, st, node_id, parent_id) ==
  LET st1 == [st EXCEPT !.visited = @ \cup {node_id},
                        !.rec_stack = @ \cup {node_id},
                        !.parent_map = Put(@, node_id, parent_id)]
      r == dfs_edges(H, g, st1, node_id, parent_id, get_outgoing_edges(H, g, node_id), 1)
  IN IF r.found THEN r ELSE [r EXCEPT !.rec_stack = @ \ {node_id}]

dfs_edges(H, g, st, node_id, parent_id, edges, i) ==
  IF i > Len(edges) THEN st
  ELSE LET edge == H.edge[edges[i]]
           other == get_other_node(H, edge, node_id)
           neighbor == IF other = 0 /\ edge.source_node = edge.target_node
                       THEN DictGet(H.graph[g].nodes, node_id) ELSE other
           neighbor_id == H.node[neighbor].node_id
       IN IF neighbor_id \notin st.visited
          THEN LET r == dfs(H, g, st, neighbor_id, {node_id})
               IN IF r.found THEN r
                  ELSE dfs_edges(H, g, r, node_id, parent_id, edges, i + 1)
          ELSE IF neighbor_id \in st.rec_stack
          THEN IF edge.direction = "UNDIRECTED"
               THEN IF neighbor_id \notin parent_id
                    THEN [st EXCEPT !.found = TRUE]
                    ELSE dfs_edges(H, g, st, node_id, parent_id, edges, i + 1)
               ELSE [st EXCEPT !.found = TRUE]
          ELSE dfs_edges(H, g, st, node_id, parent_id, edges, i + 1)

\* the loop "for node_id in self.nodes" of has_cycle
RECURSIVE has_cycle_from(_, _, _, _)
has_cycle_from(H, g, st, i) ==
  LET nodes == H.graph[g].nodes
  IN IF i > Len(nodes) THEN FALSE
     ELSE IF nodes[i].key \notin st.visited
     THEN LET r == dfs(H, g, st, nodes[i].key, {})
          IN IF r.found THEN TRUE ELSE has_cycle_from(H, g, r, i + 1)
     ELSE has_cycle_from(H, g, st, i + 1)

\* has_cycle that searches from the first node of the graph only
has_cycle_first_only(H, g) ==
  /\ Len(H.graph[g].nodes) > 0
  /\ dfs(H, g, [found |-> FALSE, visited |-> {}, rec_stack |-> {}, parent_map |-> EmptyMap],
         H.graph[g].nodes[1].key, {}).found

has_cycle(H, g) ==
  has_cycle_from(H, g, [found |-> FALSE, visited |-> {}, rec_stack |-> {},
                        parent_map |-> EmptyMap], 1)

(***************************************************************************)
(* Graph.get_subgraph_by_nodes.  The argument is a Python set; order is    *)
(* the sequence in which the set is iterated.  The new graph takes the     *)
(* graph slot sub.                                                         *)
(***************************************************************************)
\* a copy that is the node object itself
deepcopy_node_shared(H, nref) == [heap |-> H, ref |-> nref]

\* deepcopy of a node: a new object with equal fields
deepcopy_node(H, nref) ==
  LET r == NewRef(H.node)
  IN [heap |-> [H EXCEPT !.node[r] = H.node[nref]], ref |-> r]

RECURSIVE copy_nodes(_, _, _, _, _), copy_nodes_after(_, _, _, _, _)
copy_nodes(H, g, sub, order, i) ==
  IF i > Len(order) THEN Done(H)
  ELSE IF DictHas(H.graph[g].nodes, order[i])
  THEN copy_nodes_after(
         add_node(deepcopy_node(H, DictGet(H.graph[g].nodes, order[i])).heap, sub,
                  deepcopy_node(H, DictGet(H.graph[g].nodes, order[i])).ref),
         g, sub, order, i)
  ELSE copy_nodes(H, g, sub, order, i + 1)

copy_nodes_after(a, g, sub, order, i) ==
  IF a.exc # "none" THEN a ELSE copy_nodes(a.heap, g, sub, order, i + 1)

\* Edge(edge.edge_id, new_source, new_target, edge.direction, **edge.attributes)
\* and subgraph.add_edge(new_edge)
new_edge_added(H, sub, new_source, new_target, new_edge) ==
  IF new_edge.exc # "none" THEN Fail(H, new_edge.exc)
  ELSE IF new_source = 0 \/ new_target = 0 THEN Fail(H, "AttributeError")
  ELSE add_edge([H EXCEPT !.edge[NewRef(H.edge)] = new_edge.val], sub, NewRef(H.edge))

RECURSIVE copy_edges(_, _, _, _, _), copy_edges_after(_, _, _, _, _)
copy_edges(H, g, sub, node_ids, i) ==
  IF i > Len(H.graph[g].edges) THEN Done(H)
  ELSE IF /\ SourceId(H, H.edge[H.graph[g].edges[i].ref]) \in node_ids
          /\ TargetId(H, H.edge[H.graph[g].edges[i].ref]) \in node_ids
  THEN copy_edges_after(
         new_edge_added(H, sub,
                        get_node(H, sub, SourceId(H, H.edge[H.graph[g].edges[i].ref])),
                        get_node(H, sub, TargetId(H, H.edge[H.graph[g].edges[i].ref])),
                        Edge_init(H.edge[H.graph[g].edges[i].ref].edge_id,
                                  get_node(H, sub, SourceId(H, H.edge[H.graph[g].edges[i].ref])),
                                  get_node(H, sub, TargetId(H, H.edge[H.graph[g].edges[i].ref])),
                                  H.edge[H.graph[g].edges[i].ref].direction,
                                  H.edge[H.graph[g].edges[i].ref].attributes)),
         g, sub, node_ids, i)
  ELSE copy_edges(H, g, sub, node_ids, i + 1)

copy_edges_after(a, g, sub, node_ids, i) ==
  IF a.exc # "none" THEN a ELSE copy_edges(a.heap, g, sub, node_ids, i + 1)

SubSuffix == <<"_", "s", "u", "b">>

\* the edge loop runs when the node loop has ended normally
subgraph_edges(n, g, sub, node_ids) ==
  IF n.exc # "none" THEN n ELSE copy_edges(n.heap, g, sub, node_ids, 1)

\* "return subgraph"; an exception leaves the caller's objects as they were
subgraph_result(H, e, sub) ==
  IF e.exc # "none" THEN Fail(H, e.exc) ELSE [exc |-> "none", heap |-> e.heap, val |-> sub]

get_subgraph_by_nodes(H, g, sub, order) ==
  subgraph_result(
    H,
    subgraph_edges(
      copy_nodes([H EXCEPT !.graph[sub] = Graph_init(H.graph[g].graph_id \o SubSuffix)],
                 g, sub, order, 1),
      g, sub, Range(order)),
    sub)

(***************************************************************************)
(* Reference semantics.  An object no graph reaches is garbage and its     *)
(* slot is reused; slot numbers are identities only, so the live objects   *)
(* are kept in a canonical numbering (graphs in slot order, each dict in   *)
(* its insertion order).                                                   *)
(***************************************************************************)
RECURSIVE Uniq(_)
Uniq(s) ==
  IF Len(s) = 0 THEN <<>>
  ELSE LET front == Uniq(SubSeq(s, 1, Len(s) - 1))
       IN IF s[Len(s)] \in Range(front) THEN front ELSE Append(front, s[Len(s)])

RECURSIVE SetToSeq(_)
SetToSeq(S) == IF S = {} THEN <<>> ELSE <<SetMin(S)>> \o SetToSeq(S \ {SetMin(S)})

LiveGraphs(H) == {g \in DOMAIN H.graph : H.graph[g].kind = "graph"}
DictRefs(d) == [i \in 1..Len(d) |-> d[i].ref]

RECURSIVE RefsInOrder(_, _, _)
RefsInOrder(H, field, g) ==
  IF g > Len(H.graph) THEN <<>>
  ELSE (IF g \in LiveGraphs(H)
        THEN DictRefs(IF field = "nodes" THEN H.graph[g].nodes ELSE H.graph[g].edges)
        ELSE <<>>) \o RefsInOrder(H, field, g + 1)

AdjRefs(H) ==
  UNION {UNION {Range(H.graph[g].adjacency_list[n]) : n \in DOMAIN H.graph[g].adjacency_list}
           : g \in LiveGraphs(H)}

LiveEdges(H) ==
  LET inDicts == Uniq(RefsInOrder(H, "edges", 1))
  IN inDicts \o SetToSeq(AdjRefs(H) \ Range(inDicts))

LiveNodes(H) ==
  LET inDicts == Uniq(RefsInOrder(H, "nodes", 1))
      ends == UNION {{H.edge[r].source_node, H.edge[r].target_node} : r \in Range(LiveEdges(H))}
  IN inDicts \o SetToSeq((ends \ {0}) \ Range(inDicts))

IndexOf(s, x) == CHOOSE i \in 1..Len(s) : s[i] = x

Collect(H) ==
  LET ns == LiveNodes(H)
      es == LiveEdges(H)
      nmap(r) == IF r = 0 THEN 0 ELSE IndexOf(ns, r)
      emap(r) == IndexOf(es, r)
      redict(d, m(_)) == [i \in 1..Len(d) |-> [key |-> d[i].key, ref |-> m(d[i].ref)]]
  IN [node |-> [r \in DOMAIN H.node |-> IF r <= Len(ns) THEN H.node[ns[r]] ELSE Free],
      edge |-> [r \in DOMAIN H.edge |->
                  IF r <= Len(es)
                  THEN [H.edge[es[r]] EXCEPT !.source_node = nmap(@), !.target_node = nmap(@)]
                  ELSE Free],
      graph |-> [g \in DOMAIN H.graph |->
                   IF g \in LiveGraphs(H)
                   THEN [H.graph[g] EXCEPT
                           !.nodes = redict(@, nmap),
                           !.edges = redict(@, emap),
                           !.adjacency_list =
                              [n \in DOMAIN @ |-> [i \in 1..Len(@[n]) |-> emap(@[n][i])]]]
                   ELSE Free]]

(***************************************************************************)
(* What a caller can observe of a graph: its nodes and edges in dict       *)
(* order with their attributes, and the adjacency index by edge id.        *)
(***************************************************************************)
NodeIdsOf(H, g) == DictKeys(H.graph[g].nodes)
EdgeIdsOf(H, g) == DictKeys(H.graph[g].edges)
EdgeObj(H, g, edge_id) == H.edge[DictGet(H.graph[g].edges, edge_id)]
NodeObj(H, g, node_id) == H.node[DictGet(H.graph[g].nodes, node_id)]

EdgeValue(H, e) ==
  [edge_id |-> e.edge_id, source |-> SourceId(H, e), target |-> TargetId(H, e),
   direction |-> e.direction, attributes |-> e.attributes,
   attribute_types |-> e.attribute_types]

GraphValue(H, g) ==
  LET G == H.graph[g]
  IN [graph_id |-> G.graph_id,
      nodes |-> [i \in 1..Len(G.nodes) |-> [key |-> G.nodes[i].key, obj |-> H.node[G.nodes[i].ref]]],
      edges |-> [i \in 1..Len(G.edges) |->
                   [key |-> G.edges[i].key, obj |-> EdgeValue(H, H.edge[G.edges[i].ref])]],
      adjacency_list |->
         [n \in DOMAIN G.adjacency_list |->
            [i \in 1..Len(G.adjacency_list[n]) |-> H.edge[G.adjacency_list[n][i]].edge_id]]]

(***************************************************************************)
(* Inputs of the model.                                                    *)
(***************************************************************************)
idA == <<"A">>
idB == <<"B">>
idC == <<"C">>
idE1 == <<"e", "1">>
idE2 == <<"e", "2">>
idE3 == <<"e", "3">>
AllEdgeIds == <<idE1, idE2, idE3, <<"e", "4">>, <<"e", "5">>>>
NodeIds == {idA, idB}
EdgeIds == {AllEdgeIds[i] : i \in 1..MaxEdges}
Directions == {"DIRECTED", "UNDIRECTED"}
kAge == <<"A", "g", "e">>
kName == <<"N", "a", "m", "e">>
kWeight == <<"W", "e", "i", "g", "h", "t">>
kDirection == <<"d", "i", "r", "e", "c", "t", "i", "o", "n">>

\* keyword arguments the callers construct each node and edge with
NodeKwargs(id) ==
  IF id = idA THEN (kAge :> PyInt(30)) @@ (kName :> PyStr(<<"A", "n", "n">>))
  ELSE IF id = idB THEN (kAge :> PyStr(<<"3", "5">>))
  ELSE EmptyMap

EdgeKwargs(id) ==
  IF id = idE1 THEN (kWeight :> PyStr(<<"1", ".", "5">>)) ELSE EmptyMap

G1 == 1
G2 == 2
GraphName == <<"g">>

(***************************************************************************)
(* SpecGraph: any sequence of add_node, add_edge, remove_node and          *)
(* remove_edge calls on one graph.  lastOp records the last call: the      *)
(* method, the id it was given, whether its ids were in the way (an id to  *)
(* add already present or an endpoint absent, an id to remove absent), the *)
(* exception it raised and the number k of edges it removed.               *)
(***************************************************************************)
Call(op, id, bad, exc, k) == [op |-> op, id |-> id, bad |-> bad, exc |-> exc, k |-> k]

\* no Workspace has been constructed
NoWorkspace == [kind |-> "free"]

\* no CommandProcessor has been constructed
NoProcessor == [kind |-> "free"]

InitGraph ==
  /\ heap = [EmptyHeap EXCEPT !.graph[G1] = Graph_init(GraphName)]
  /\ lastOp = Call("init", <<>>, FALSE, "none", 0)
  /\ ws = NoWorkspace
  /\ cli = NoProcessor

\* the call returns: objects no longer referenced are reclaimed and the call
\* is recorded with the number of edges it took from graph g
Return(a, g, op, id, bad) ==
  /\ heap' = Collect(a.heap)
  /\ UNCHANGED <<ws, cli>>
  /\ lastOp' = Call(op, id, bad, a.exc, Len(heap.graph[g].edges) - Len(a.heap.graph[g].edges))

\* Node(id, **kwargs) in a new slot, then g.add_node of it
add_new_node(H, g, id) ==
  add_node([H EXCEPT !.node[NewRef(H.node)] = Node_init(id, NodeKwargs(id)).val],
           g, NewRef(H.node))

\* g.add_node(Node(id, **kwargs))
AddNode(g, id) ==
  /\ FreeSlots(heap.node) # {}
  /\ Return(add_new_node(heap, g, id), g, "add_node", id, id \in NodeIdsOf(heap, g))

\* the node object a caller passes as an endpoint: the graph's own node of
\* that id, or a node constructed apart when the graph has none
EndpointHeap(H, g, id) ==
  IF DictHas(H.graph[g].nodes, id) THEN [heap |-> H, ref |-> DictGet(H.graph[g].nodes, id)]
  ELSE [heap |-> [H EXCEPT !.node[NewRef(H.node)] = Node_init(id, NodeKwargs(id)).val],
        ref |-> NewRef(H.node)]

\* Edge(id, sn, tn, direction, **kwargs) in a new slot, then g.add_edge of it
add_new_edge(sn, tn, g, id, direction) ==
  add_edge([tn.heap EXCEPT !.edge[NewRef(tn.heap.edge)] =
                             Edge_init(id, sn.ref, tn.ref, direction, EdgeKwargs(id)).val],
           g, NewRef(tn.heap.edge))

\* the second endpoint is the first one again on a self-loop
add_edge_from(sn, g, id, s, t, direction) ==
  add_new_edge(sn, IF t = s THEN sn ELSE EndpointHeap(sn.heap, g, t), g, id, direction)

add_edge_between(H, g, id, s, t, direction) ==
  add_edge_from(EndpointHeap(H, g, s), g, id, s, t, direction)

\* the object behind a reference takes the outcome r of a method on it
with_object(H, field, ref, r) ==
  IF r.exc # "none" THEN Fail(H, r.exc) ELSE Done([H EXCEPT ![field][ref] = r.val])

\* g.get_node(id).set_attribute(key, value) and its edge counterpart
set_node_attribute(H, g, id, key, value) ==
  with_object(H, "node", get_node(H, g, id),
              Node_set_attribute(H.node[get_node(H, g, id)], key, value))
set_edge_attribute(H, g, id, key, value) ==
  with_object(H, "edge", get_edge(H, g, id),
              Edge_set_attribute(H.edge[get_edge(H, g, id)], key, value))

\* g.get_node(id).delete_attribute(key) and its edge counterpart
delete_node_attribute(H, g, id, key) ==
  Done([H EXCEPT !.node[get_node(H, g, id)] = Node_delete_attribute(@, key)])
delete_edge_attribute(H, g, id, key) ==
  Done([H EXCEPT !.edge[get_edge(H, g, id)] = Edge_delete_attribute(@, key)])

\* g.add_edge(Edge(id, s, t, direction, **kwargs))
AddEdge(g, id, s, t, direction) ==
  /\ Cardinality(FreeSlots(heap.node)) >= 2
  /\ FreeSlots(heap.edge) # {}
  /\ Return(add_edge_between(heap, g, id, s, t, direction), g, "add_edge", id,
            \/ s \notin NodeIdsOf(heap, g) \/ t \notin NodeIdsOf(heap, g)
            \/ id \in EdgeIdsOf(heap, g))

RemoveNode(g, id) ==
  Return(remove_node(heap, g, id), g, "remove_node", id, id \notin NodeIdsOf(heap, g))

RemoveEdge(g, id) ==
  Return(remove_edge(heap, g, id), g, "remove_edge", id, id \notin EdgeIdsOf(heap, g))

NextGraph ==
  \/ \E id \in NodeIds : AddNode(G1, id)
  \/ \E id \in EdgeIds, s \in NodeIds, t \in NodeIds, d \in Directions : AddEdge(G1, id, s, t, d)
  \/ \E id \in NodeIds : RemoveNode(G1, id)
  \/ \E id \in EdgeIds : RemoveEdge(G1, id)

SpecGraph == InitGraph /\ [][NextGraph]_vars

\* edges of graph g touching node n, as edge ids
Touching(H, g, n) ==
  {id \in EdgeIdsOf(H, g) : SourceId(H, EdgeObj(H, g, id)) = n \/ TargetId(H, EdgeObj(H, g, id)) = n}

NoRepeat(s) == \A i, j \in 1..Len(s) : s[i] = s[j] => i = j

Integrity(H, g) ==
  LET G == H.graph[g]
  IN /\ \A i \in 1..Len(G.nodes) : H.node[G.nodes[i].ref].node_id = G.nodes[i].key
     /\ \A i \in 1..Len(G.edges) : H.edge[G.edges[i].ref].edge_id = G.edges[i].key
     /\ \A id \in EdgeIdsOf(H, g) :
          /\ SourceId(H, EdgeObj(H, g, id)) \in NodeIdsOf(H, g)
          /\ TargetId(H, EdgeObj(H, g, id)) \in NodeIdsOf(H, g)
     /\ DOMAIN G.adjacency_list = NodeIdsOf(H, g)
     /\ \A n \in NodeIdsOf(H, g) :
          /\ NoRepeat(G.adjacency_list[n])
          /\ Range(G.adjacency_list[n]) = {DictGet(G.edges, id) : id \in Touching(H, g, n)}

IsSelfLoop(H, g, id) == SourceId(H, EdgeObj(H, g, id)) = TargetId(H, EdgeObj(H, g, id))

\* C1: in every reachable state every edge's endpoints are nodes of the
\* graph and each adjacency list holds exactly the edges touching its node,
\* each once.
C1_GraphIntegrity == Integrity(heap, G1)

C1_Witness ==
  /\ lastOp.op = "remove_edge" /\ lastOp.k = 1
  /\ \E id \in EdgeIdsOf(heap, G1) : IsSelfLoop(heap, G1, id)
  /\ Cardinality(NodeIdsOf(heap, G1)) >= 2

\* C2: add_node with a present id, add_edge with an absent endpoint or a
\* present edge id, and remove_node with an absent id raise and leave the
\* nodes, the edges and the adjacency index as they were.
C2_FailuresAreAtomic ==
  [][(lastOp'.op \in {"add_node", "add_edge", "remove_node"} /\ lastOp'.bad)
       => (lastOp'.exc = "ValueError" /\ GraphValue(heap', G1) = GraphValue(heap, G1))
    ]_vars

C2_Witness ==
  /\ lastOp.op = "add_edge" /\ lastOp.bad /\ lastOp.exc = "ValueError"
  /\ Cardinality(NodeIdsOf(heap, G1)) = 1
  /\ EdgeIdsOf(heap, G1) # {}

\* C3: remove_node(N) on a present node removes N and exactly the edges
\* with N as source or target, keeps every other node and edge as it was,
\* and leaves no removed edge in the adjacency list of a remaining node.
C3_RemoveNodeCascades ==
  [][(lastOp'.op = "remove_node" /\ lastOp'.id \in NodeIdsOf(heap, G1)) =>
       LET n == lastOp'.id
           old == GraphValue(heap, G1)
           new == GraphValue(heap', G1)
           gone == Touching(heap, G1, n)
       IN /\ lastOp'.exc = "none"
          /\ new.nodes = SelectSeq(old.nodes, LAMBDA x : x.key # n)
          /\ new.edges = SelectSeq(old.edges, LAMBDA x : x.key \notin gone)
          /\ DOMAIN new.adjacency_list = NodeIdsOf(heap, G1) \ {n}
          /\ \A m \in DOMAIN new.adjacency_list :
               new.adjacency_list[m] =
                 SelectSeq(old.adjacency_list[m], LAMBDA x : x \notin gone)
    ]_vars

C3_Witness ==
  /\ lastOp.op = "remove_node" /\ lastOp.exc = "none" /\ lastOp.k = 1
  /\ NodeIdsOf(heap, G1) # {}
  /\ EdgeIdsOf(heap, G1) # {}

\* C4: remove_edge never raises; with an absent edge id it changes nothing,
\* and a second remove_edge of the same id changes nothing more.
C4_RemoveEdgeIdempotent ==
  [][lastOp'.op = "remove_edge" =>
       /\ lastOp'.exc = "none"
       /\ lastOp'.id \notin EdgeIdsOf(heap', G1)
       /\ lastOp'.bad => GraphValue(heap', G1) = GraphValue(heap, G1)
       /\ LET again == remove_edge(heap', G1, lastOp'.id)
          IN again.exc = "none" /\ again.heap = heap'
    ]_vars

C4_Witness ==
  /\ lastOp.op = "remove_edge" /\ lastOp.bad /\ lastOp.exc = "none"
  /\ EdgeIdsOf(heap, G1) # {}

\* the edge ids of a list of edge references
IdsOf(H, refs) == [i \in 1..Len(refs) |-> H.edge[refs[i]].edge_id]

\* C5: get_outgoing_edges(n) is the DIRECTED edges with source n plus the
\* UNDIRECTED edges with n at either end, get_incoming_edges(n) the
\* DIRECTED edges with target n plus the same UNDIRECTED edges, and neither
\* returns an edge twice.
C5_DirectionAwareQueries ==
  \A n \in NodeIds :
    LET out == IdsOf(heap, get_outgoing_edges(heap, G1, n))
        inc == IdsOf(heap, get_incoming_edges(heap, G1, n))
        und == {id \in Touching(heap, G1, n) : EdgeObj(heap, G1, id).direction = "UNDIRECTED"}
        dir == EdgeIdsOf(heap, G1) \ und
    IN /\ NoRepeat(out) /\ NoRepeat(inc)
       /\ Range(out) = und \cup {id \in dir : SourceId(heap, EdgeObj(heap, G1, id)) = n}
       /\ Range(inc) = und \cup {id \in dir : TargetId(heap, EdgeObj(heap, G1, id)) = n}

C5_Witness ==
  /\ lastOp.op = "add_edge" /\ lastOp.exc = "none"
  /\ \E u, d \in EdgeIdsOf(heap, G1) :
       /\ EdgeObj(heap, G1, u).direction = "UNDIRECTED" /\ ~IsSelfLoop(heap, G1, u)
       /\ EdgeObj(heap, G1, d).direction = "DIRECTED" /\ ~IsSelfLoop(heap, G1, d)

(***************************************************************************)
(* SpecCycle: a graph over the nodes A, B, C built by add_node and         *)
(* add_edge in any order, edges in either direction mode and either        *)
(* orientation, and has_cycle called on it at any point.                   *)
(***************************************************************************)
CycleNodeIds == {idA, idB, idC}
MaxCycleEdges == Cardinality(CycleNodeIds)

InitCycle == InitGraph

CycleAddNode(id) ==
  /\ id \notin NodeIdsOf(heap, G1)
  /\ AddNode(G1, id)

CycleAddEdge(s, t, d) ==
  /\ Len(heap.graph[G1].edges) < MaxCycleEdges
  /\ s \in NodeIdsOf(heap, G1) /\ t \in NodeIdsOf(heap, G1)
  /\ AddEdge(G1, AllEdgeIds[Len(heap.graph[G1].edges) + 1], s, t, d)

\* g.has_cycle()
HasCycle(g) ==
  /\ lastOp.op # "has_cycle"
  /\ heap' = heap
  /\ lastOp' = [op |-> "has_cycle", val |-> has_cycle(heap, g)]
  /\ UNCHANGED <<ws, cli>>

NextCycle ==
  \/ \E id \in CycleNodeIds : CycleAddNode(id)
  \/ \E s \in CycleNodeIds, t \in CycleNodeIds, d \in Directions : CycleAddEdge(s, t, d)
  \/ HasCycle(G1)

SpecCycle == InitCycle /\ [][NextCycle]_vars

\* the edges of a graph as (source, target) pairs, by direction mode
Arcs(H, g) ==
  {<<SourceId(H, EdgeObj(H, g, id)), TargetId(H, EdgeObj(H, g, id))>> :
     id \in {x \in EdgeIdsOf(H, g) : EdgeObj(H, g, x).direction = "DIRECTED"}}
Links(H, g) ==
  {{SourceId(H, EdgeObj(H, g, id)), TargetId(H, EdgeObj(H, g, id))} :
     id \in {x \in EdgeIdsOf(H, g) : EdgeObj(H, g, x).direction = "UNDIRECTED"}}
EdgeCount(H, g) == Len(H.graph[g].edges)
AllDirected(H, g) == \A id \in EdgeIdsOf(H, g) : EdgeObj(H, g, id).direction = "DIRECTED"
AllUndirected(H, g) == \A id \in EdgeIdsOf(H, g) : EdgeObj(H, g, id).direction = "UNDIRECTED"

\* the shapes the cycle detection is specified on, over three nodes x, y, z
ThreeNodes(H, g, x, y, z) == Cardinality({x, y, z}) = 3 /\ NodeIdsOf(H, g) = {x, y, z}
DirectedTriangle(H, g) ==
  \E x, y, z \in NodeIdsOf(H, g) :
    /\ ThreeNodes(H, g, x, y, z) /\ EdgeCount(H, g) = 3 /\ AllDirected(H, g)
    /\ Arcs(H, g) = {<<x, y>>, <<y, z>>, <<z, x>>}
DirectedPath(H, g) ==
  \E x, y, z \in NodeIdsOf(H, g) :
    /\ ThreeNodes(H, g, x, y, z) /\ EdgeCount(H, g) = 2 /\ AllDirected(H, g)
    /\ Arcs(H, g) = {<<x, y>>, <<y, z>>}
UndirectedPath(H, g) ==
  \E x, y, z \in NodeIdsOf(H, g) :
    /\ ThreeNodes(H, g, x, y, z) /\ EdgeCount(H, g) = 2 /\ AllUndirected(H, g)
    /\ Links(H, g) = {{x, y}, {y, z}}
UndirectedTriangle(H, g) ==
  \E x, y, z \in NodeIdsOf(H, g) :
    /\ ThreeNodes(H, g, x, y, z) /\ EdgeCount(H, g) = 3 /\ AllUndirected(H, g)
    /\ Links(H, g) = {{x, y}, {y, z}, {z, x}}
SingleSelfLoop(H, g) ==
  /\ EdgeCount(H, g) = 1
  /\ \A id \in EdgeIdsOf(H, g) : IsSelfLoop(H, g, id)
EmptyGraph(H, g) == NodeIdsOf(H, g) = {} /\ EdgeCount(H, g) = 0
IsolatedNode(H, g) == Cardinality(NodeIdsOf(H, g)) = 1 /\ EdgeCount(H, g) = 0

\* C6: has_cycle is true on a directed triangle, an undirected triangle and
\* a graph whose one edge is a self-loop of either direction mode, and false
\* on the empty graph, one isolated node, a directed path and an undirected
\* path, in whatever order the nodes and edges were added.
C6_HasCycleOnShapes ==
  lastOp.op = "has_cycle" =>
    /\ (\/ DirectedTriangle(heap, G1) \/ UndirectedTriangle(heap, G1)
        \/ SingleSelfLoop(heap, G1)) => lastOp.val = TRUE
    /\ (\/ EmptyGraph(heap, G1) \/ IsolatedNode(heap, G1)
        \/ DirectedPath(heap, G1) \/ UndirectedPath(heap, G1)) => lastOp.val = FALSE

\* an undirected path answered from a graph whose middle node was added
\* last and whose edges were added far end first
C6_Witness ==
  /\ lastOp.op = "has_cycle" /\ lastOp.val = FALSE
  /\ UndirectedPath(heap, G1)
  /\ heap.graph[G1].nodes[3].key = idB
  /\ Links(heap, G1) = {{idA, idB}, {idB, idC}}
  /\ SourceId(heap, EdgeObj(heap, G1, idE1)) = idC

\* one step along an edge: a DIRECTED edge from its source to its target,
\* an UNDIRECTED edge from either end to the other
CanStep(H, e, from, to) ==
  \/ SourceId(H, e) = from /\ TargetId(H, e) = to
  \/ e.direction = "UNDIRECTED" /\ TargetId(H, e) = from /\ SourceId(H, e) = to

\* a walk from cur back to start over edges of unused, each taken once
RECURSIVE ClosesFrom(_, _, _, _, _)
ClosesFrom(H, g, start, cur, unused) ==
  \E id \in unused, to \in NodeIdsOf(H, g) :
    /\ CanStep(H, EdgeObj(H, g, id), cur, to)
    /\ to = start \/ ClosesFrom(H, g, start, to, unused \ {id})

\* the graph contains a cycle: a closed walk of at least one edge that uses
\* no edge twice
ContainsCycle(H, g) ==
  \E start \in NodeIdsOf(H, g) : ClosesFrom(H, g, start, start, EdgeIdsOf(H, g))

\* C31: on every graph mixing DIRECTED and UNDIRECTED edges, parallel edges
\* allowed, has_cycle returns true exactly when the graph contains a cycle:
\* a closed walk of at least one edge that uses no edge twice and follows
\* DIRECTED edges from source to target only.
C31_HasCycleExact ==
  lastOp.op = "has_cycle" => lastOp.val = ContainsCycle(heap, G1)

\* the orders in which a set of ids can be iterated
Orders(S) == {o \in UNION {[1..n -> S] : n \in 0..Cardinality(S)} : NoRepeat(o)}

\* the orders in which all elements of a set can be listed
FullOrders(S) == {o \in Orders(S) : Len(o) = Cardinality(S)}

\* a graph in slot g2 that takes the node objects and then the edge objects
\* in the given orders
RECURSIVE add_nodes_in(_, _, _, _), add_edges_in(_, _, _, _)
add_nodes_in(H, g2, node_order, i) ==
  IF i > Len(node_order) THEN H
  ELSE add_nodes_in(add_node(H, g2, node_order[i]).heap, g2, node_order, i + 1)

add_edges_in(H, g2, edge_order, i) ==
  IF i > Len(edge_order) THEN H
  ELSE add_edges_in(add_edge(H, g2, edge_order[i]).heap, g2, edge_order, i + 1)

Rebuilt(H, g2, node_order, edge_order) ==
  add_edges_in(add_nodes_in([H EXCEPT !.graph[g2] = Graph_init(GraphName)], g2, node_order, 1),
               g2, edge_order, 1)

\* C32: the result of has_cycle depends only on the nodes and the edges of
\* the graph: a graph built from the same nodes and edges added in any
\* other order gives the same result.
C32_OrderIndependent ==
  lastOp.op = "has_cycle" =>
    \A node_order \in FullOrders(Range(DictRefs(heap.graph[G1].nodes))),
       edge_order \in FullOrders(Range(DictRefs(heap.graph[G1].edges))) :
      has_cycle(Rebuilt(heap, G2, node_order, edge_order), G2) = lastOp.val

(***************************************************************************)
(* SpecSub: the graph g over the nodes A and B takes edges and edge        *)
(* attributes, g2 = g.get_subgraph_by_nodes(ids) is called with any set of *)
(* ids iterated in any order, and g2 is then mutated by up to MaxSubOps    *)
(* calls.  After the subgraph call lastOp counts the calls made on g2.     *)
(***************************************************************************)
Unknown == <<"Z">>
SubIds == NodeIds \cup {Unknown}

InitSub ==
  /\ heap = add_new_node(add_new_node([EmptyHeap EXCEPT !.graph[G1] = Graph_init(GraphName)],
                                      G1, idA).heap, G1, idB).heap
  /\ lastOp = Call("init", <<>>, FALSE, "none", 0)
  /\ ws = NoWorkspace
  /\ cli = NoProcessor

Building == heap.graph[G2].kind = "free" /\ lastOp.op # "get_subgraph_by_nodes"
Mutating == heap.graph[G2].kind = "graph" /\ lastOp.n < MaxSubOps

SubAddEdge(s, t, d) ==
  /\ Building
  /\ Len(heap.graph[G1].edges) < MaxEdges
  /\ AddEdge(G1, AllEdgeIds[Len(heap.graph[G1].edges) + 1], s, t, d)

\* g.get_edge(id).set_attribute(key, value)
SubSetEdgeAttribute(id, key, value) ==
  /\ Building
  /\ id \in EdgeIdsOf(heap, G1)
  /\ key \notin DOMAIN EdgeObj(heap, G1, id).attributes
  /\ Return(set_edge_attribute(heap, G1, id, key, value), G1, "set_attribute", id, FALSE)

\* g2 = g.get_subgraph_by_nodes(ids)
SubReturn(a, order) ==
  /\ heap' = Collect(a.heap)
  /\ UNCHANGED <<ws, cli>>
  /\ lastOp' = [op |-> "get_subgraph_by_nodes", id |-> order, exc |-> a.exc, n |-> 0]

Subgraph(order) ==
  /\ Building
  /\ Cardinality(FreeSlots(heap.node)) >= Len(order)
  /\ Cardinality(FreeSlots(heap.edge)) >= Len(heap.graph[G1].edges)
  /\ SubReturn(get_subgraph_by_nodes(heap, G1, G2, order), order)

\* a call on g2 returns
Mutated(a, op, id) ==
  /\ heap' = Collect(a.heap)
  /\ UNCHANGED <<ws, cli>>
  /\ lastOp' = [op |-> op, id |-> id, exc |-> a.exc, n |-> lastOp.n + 1]

MutAddNode(id) ==
  /\ Mutating /\ FreeSlots(heap.node) # {}
  /\ Mutated(add_new_node(heap, G2, id), "add_node", id)

MutAddEdge(id, s, t, d) ==
  /\ Mutating /\ Cardinality(FreeSlots(heap.node)) >= 2 /\ FreeSlots(heap.edge) # {}
  /\ Mutated(add_edge_between(heap, G2, id, s, t, d), "add_edge", id)

MutRemoveNode(id) ==
  /\ Mutating
  /\ Mutated(remove_node(heap, G2, id), "remove_node", id)

MutRemoveEdge(id) ==
  /\ Mutating
  /\ Mutated(remove_edge(heap, G2, id), "remove_edge", id)

MutSetNodeAttribute(id, key, value) ==
  /\ Mutating /\ id \in NodeIdsOf(heap, G2)
  /\ Mutated(set_node_attribute(heap, G2, id, key, value), "set_attribute", id)

MutDeleteNodeAttribute(id, key) ==
  /\ Mutating /\ id \in NodeIdsOf(heap, G2)
  /\ Mutated(delete_node_attribute(heap, G2, id, key), "delete_attribute", id)

MutSetEdgeAttribute(id, key, value) ==
  /\ Mutating /\ id \in EdgeIdsOf(heap, G2)
  /\ Mutated(set_edge_attribute(heap, G2, id, key, value), "set_attribute", id)

MutDeleteEdgeAttribute(id, key) ==
  /\ Mutating /\ id \in EdgeIdsOf(heap, G2)
  /\ Mutated(delete_edge_attribute(heap, G2, id, key), "delete_attribute", id)

NextSub ==
  \/ \E s \in NodeIds, t \in NodeIds, d \in Directions : SubAddEdge(s, t, d)
  \/ \E id \in EdgeIds : SubSetEdgeAttribute(id, kDirection, PyStr(<<"x">>))
  \/ \E order \in Orders(SubIds) : Subgraph(order)
  \/ \E id \in NodeIds : MutAddNode(id)
  \/ \E id \in EdgeIds, s \in NodeIds, t \in NodeIds, d \in Directions : MutAddEdge(id, s, t, d)
  \/ \E id \in NodeIds : MutRemoveNode(id)
  \/ \E id \in EdgeIds : MutRemoveEdge(id)
  \/ \E id \in NodeIds : MutSetNodeAttribute(id, kAge, PyStr(<<"9", "9">>))
  \/ \E id \in NodeIds : MutDeleteNodeAttribute(id, kAge)
  \/ \E id \in EdgeIds : MutSetEdgeAttribute(id, kWeight, PyInt(2))
  \/ \E id \in EdgeIds : MutDeleteEdgeAttribute(id, kWeight)

SpecSub == InitSub /\ [][NextSub]_vars

\* what an edge keeps when it is re-instantiated
EdgeKept(H, e) ==
  [edge_id |-> e.edge_id, source |-> SourceId(H, e), target |-> TargetId(H, e),
   direction |-> e.direction, attributes |-> e.attributes]

\* C7: get_subgraph_by_nodes(ids) returns a graph whose node ids are ids
\* intersected with the source's node ids, whose edges are the source edges
\* with both endpoints in ids, each with its id, endpoints, direction and
\* attribute values, and which satisfies the graph integrity invariant.
C7_SubgraphIsInduced ==
  [][lastOp'.op = "get_subgraph_by_nodes" =>
       /\ lastOp'.exc = "none"
       /\ heap'.graph[G2].kind = "graph"
       /\ NodeIdsOf(heap', G2) = Range(lastOp'.id) \cap NodeIdsOf(heap, G1)
       /\ EdgeIdsOf(heap', G2) =
            {id \in EdgeIdsOf(heap, G1) :
               /\ SourceId(heap, EdgeObj(heap, G1, id)) \in Range(lastOp'.id)
               /\ TargetId(heap, EdgeObj(heap, G1, id)) \in Range(lastOp'.id)}
       /\ \A id \in EdgeIdsOf(heap', G2) :
            EdgeKept(heap', EdgeObj(heap', G2, id)) = EdgeKept(heap, EdgeObj(heap, G1, id))
       /\ Integrity(heap', G2)
    ]_vars

\* C8: after g2 = g.get_subgraph_by_nodes(ids), a call that mutates g2
\* (set or delete a node or edge attribute, add or remove a node or an edge)
\* leaves g's nodes, edges, adjacency and attribute values as they were.
C8_SubgraphIsolated ==
  [][(heap.graph[G2].kind = "graph" /\ lastOp'.n > 0)
       => GraphValue(heap', G1) = GraphValue(heap, G1)
    ]_vars

\* g2 has lost a node the source keeps, after its Age was set in g2
C8_Witness ==
  /\ heap.graph[G2].kind = "graph"
  /\ lastOp.op = "remove_node" /\ lastOp.exc = "none" /\ lastOp.n = 2
  /\ idA \in NodeIdsOf(heap, G1) \ NodeIdsOf(heap, G2)
  /\ idB \in NodeIdsOf(heap, G2)
  /\ kAge \in DOMAIN NodeObj(heap, G2, idB).attributes
  /\ NodeObj(heap, G2, idB).attributes[kAge] = PyInt(99)
  /\ kAge \in DOMAIN NodeObj(heap, G1, idB).attributes
  /\ NodeObj(heap, G1, idB).attributes[kAge] = PyInt(35)
  /\ EdgeIdsOf(heap, G1) # {}

(***************************************************************************)
(* The query services.  A query is a string; the outcome of matching is    *)
(* the set of matching node ids or the exception raised.                   *)
(***************************************************************************)
RECURSIVE SkipSpaces(_, _)
SkipSpaces(q, i) == IF i <= Len(q) /\ q[i] = " " THEN SkipSpaces(q, i + 1) ELSE i

RECURSIVE WordEnd(_, _)
WordEnd(q, i) == IF i <= Len(q) /\ q[i] \in WordChars THEN WordEnd(q, i + 1) ELSE i

\* the alternation ==|!=|>=|<=|>(?![><=!])|<(?![><=!]) tried at position i
OperatorAt(q, i) ==
  IF /\ i + 1 <= Len(q)
     /\ <<q[i], q[i + 1]>> \in {<<"=", "=">>, <<"!", "=">>, <<">", "=">>, <<"<", "=">>}
  THEN <<q[i], q[i + 1]>>
  ELSE IF /\ i <= Len(q) /\ q[i] \in {">", "<"}
          /\ (i + 1 > Len(q) \/ q[i + 1] \notin {">", "<", "=", "!"})
  THEN <<q[i]>>
  ELSE <<>>

\* the match with the attribute at a..b-1 and the operator tried at c
filter_groups(q, a, b, c) ==
  IF b = a \/ OperatorAt(q, c) = <<>> \/ c + Len(OperatorAt(q, c)) > Len(q)
  THEN [ok |-> FALSE]
  ELSE [ok |-> TRUE, attr |-> SubSeq(q, a, b - 1), op |-> OperatorAt(q, c),
        value |-> SubSeq(q, c + Len(OperatorAt(q, c)), Len(q))]

\* _FILTER_PATTERN.match(query); value is group 3 without its leading blanks
FILTER_PATTERN(q) ==
  filter_groups(q, SkipSpaces(q, 1), WordEnd(q, SkipSpaces(q, 1)),
                SkipSpaces(q, WordEnd(q, SkipSpaces(q, 1))))

\* FilterService._validate_query
Filter_validate_query(q) ==
  IF Strip(q) = <<>> THEN Raise("FilterParseError")
  ELSE IF ~FILTER_PATTERN(q).ok THEN Raise("FilterParseError")
  ELSE Ret(TRUE)

\* the operator of a query as compare takes it
OperatorName(t) ==
  CASE t = <<"=", "=">> -> "=="
    [] t = <<"!", "=">> -> "!="
    [] t = <<">", "=">> -> ">="
    [] t = <<"<", "=">> -> "<="
    [] t = <<">">> -> ">"
    [] t = <<"<">> -> "<"

\* "except (ValueError, TypeError): raise FilterTypeError(...)"
as_filter_type_error(r) ==
  IF r.exc \in {"ValueError", "TypeError"} THEN Raise("FilterTypeError") ELSE r

\* the try block of _evaluate_node
compare_converted(node_val, target_val, operator) ==
  IF target_val.exc # "none" THEN as_filter_type_error(target_val)
  ELSE as_filter_type_error(compare(node_val, target_val.val, operator))

\* _evaluate_node that answers False where the literal does not convert or
\* compare
evaluate_node_skipping(n, attr_name, operator, target_value_str) ==
  IF attr_name \notin DOMAIN n.attributes THEN Ret(FALSE)
  ELSE IF compare_converted(n.attributes[attr_name],
                            convert_to_type(PyStr(target_value_str),
                                            n.attribute_types[attr_name]),
                            operator).exc # "none" THEN Ret(FALSE)
  ELSE compare_converted(n.attributes[attr_name],
                         convert_to_type(PyStr(target_value_str), n.attribute_types[attr_name]),
                         operator)

\* FilterService._evaluate_node
evaluate_node(n, attr_name, operator, target_value_str) ==
  IF attr_name \notin DOMAIN n.attributes THEN Ret(FALSE)
  ELSE compare_converted(n.attributes[attr_name],
                         convert_to_type(PyStr(target_value_str), n.attribute_types[attr_name]),
                         operator)

\* the loop of FilterService._find_matching_nodes over graph.get_all_nodes()
RECURSIVE filter_nodes(_, _, _, _, _, _, _), filter_nodes_after(_, _, _, _, _, _, _, _)
filter_nodes(H, g, attr_name, operator, target_value_str, i, matching_ids) ==
  IF i > Len(H.graph[g].nodes) THEN Ret(matching_ids)
  ELSE filter_nodes_after(evaluate_node(H.node[H.graph[g].nodes[i].ref], attr_name,
                                        operator, target_value_str),
                          H, g, attr_name, operator, target_value_str, i, matching_ids)

filter_nodes_after(r, H, g, attr_name, operator, target_value_str, i, matching_ids) ==
  IF r.exc # "none" THEN r
  ELSE filter_nodes(H, g, attr_name, operator, target_value_str, i + 1,
                    IF r.val THEN matching_ids \cup {H.graph[g].nodes[i].key}
                    ELSE matching_ids)

filter_with_match(H, g, match) ==
  filter_nodes(H, g, match.attr, OperatorName(match.op), Strip(match.value), 1, {})

\* FilterService._find_matching_nodes
Filter_find_matching_nodes(H, g, q) == filter_with_match(H, g, FILTER_PATTERN(q))

\* str in str
Contains(part, s) ==
  \E i \in 0..(Len(s) - Len(part)) : SubSeq(s, i + 1, i + Len(part)) = part

\* _VALUE_PATTERN.match(query) with the word ending before b
VALUE_PATTERN(q) ==
  IF WordEnd(q, 1) > 1 /\ WordEnd(q, 1) < Len(q) /\ q[WordEnd(q, 1)] = "="
  THEN [ok |-> TRUE, attr |-> SubSeq(q, 1, WordEnd(q, 1) - 1),
        value |-> SubSeq(q, WordEnd(q, 1) + 1, Len(q))]
  ELSE [ok |-> FALSE]

\* SearchService._validate_query
Search_validate_query(q) ==
  IF Strip(q) = <<>> THEN Raise("SearchParseError") ELSE Ret(TRUE)

\* SearchService._find_by_name
find_by_name(H, g, attr_name) ==
  {id \in NodeIdsOf(H, g) :
     \E key \in DOMAIN NodeObj(H, g, id).attributes : Contains(Lower(attr_name), Lower(key))}

\* SearchService._find_by_value
find_by_value(H, g, attr_name, value) ==
  {id \in NodeIdsOf(H, g) :
     \E key \in DOMAIN NodeObj(H, g, id).attributes :
       /\ Lower(key) = Lower(attr_name)
       /\ NodeObj(H, g, id).attributes[key] # PyNone
       /\ Contains(Lower(value), Lower(str_of(NodeObj(H, g, id).attributes[key])))}

\* SearchService._find_matching_nodes
Search_find_matching_nodes(H, g, q) ==
  IF VALUE_PATTERN(Strip(q)).ok
  THEN Ret(find_by_value(H, g, VALUE_PATTERN(Strip(q)).attr,
                         Strip(VALUE_PATTERN(Strip(q)).value)))
  ELSE Ret(find_by_name(H, g, Strip(q)))

\* the first two steps of GraphQueryService.execute
Filter_matching(H, g, q) ==
  IF Filter_validate_query(q).exc # "none" THEN Filter_validate_query(q)
  ELSE Filter_find_matching_nodes(H, g, q)
Search_matching(H, g, q) ==
  IF Search_validate_query(q).exc # "none" THEN Search_validate_query(q)
  ELSE Search_find_matching_nodes(H, g, q)

\* execute that prunes the input graph before it extracts the subgraph
execute_pruning(H, g, sub, matching, order) ==
  IF matching.exc # "none" THEN Fail(H, matching.exc)
  ELSE IF NodeIdsOf(H, g) \ matching.val = {} THEN get_subgraph_by_nodes(H, g, sub, order)
  ELSE get_subgraph_by_nodes(remove_node(H, g, Pick(NodeIdsOf(H, g) \ matching.val)).heap,
                             g, sub, order)

\* GraphQueryService.execute; order is the order in which the set
\* matching_ids is iterated
execute(H, g, sub, matching, order) ==
  IF matching.exc # "none" THEN Fail(H, matching.exc)
  ELSE get_subgraph_by_nodes(H, g, sub, order)

(***************************************************************************)
(* SpecQuery: the graph A -> B -- C, whose nodes take an Age of another    *)
(* type and whose first edge takes an attribute, is queried by filter and  *)
(* search any number of times; each result replaces the one before.        *)
(***************************************************************************)
QueryNodeIds == {idA, idB, idC}

InitQuery ==
  /\ heap = add_edge_between(
              add_edge_between(
                add_new_node(
                  add_new_node(
                    add_new_node([EmptyHeap EXCEPT !.graph[G1] = Graph_init(GraphName)],
                                 G1, idA).heap,
                    G1, idB).heap,
                  G1, idC).heap,
                G1, idE1, idA, idB, "DIRECTED").heap,
              G1, idE2, idB, idC, "UNDIRECTED").heap
  /\ lastOp = Call("init", <<>>, FALSE, "none", 0)
  /\ ws = NoWorkspace
  /\ cli = NoProcessor

\* the values a node's Age is set to
AgeValues == {PyNone, PyStr(<<"a", "b", "c">>), PyStr(<<"2", ".", "5">>),
              PyStr(<<"2", "0", "2", "0", "-", "0", "1", "-", "0", "2">>)}

\* the queries: a filter query is its text with the attribute, operator and
\* literal it was written from (none for a text that is no filter)
Blank == <<" ">>
Operators == {<<"=", "=">>, <<"!", "=">>, <<">", "=">>, <<"<", "=">>, <<">">>, <<"<">>}
Literals == {<<"3", "0">>, <<"1", ".", "5">>, <<"A", "n", "n">>,
             <<"2", "0", "2", "0", "-", "0", "1", "-", "0", "2">>}
FilterQuery(attr, op, lit, sp) ==
  [text |-> sp \o attr \o sp \o op \o sp \o lit \o sp, attr |-> attr, op |-> op, lit |-> lit]
NoFilter(text) == [text |-> text, attr |-> <<>>, op |-> <<>>, lit |-> <<>>]
FilterQueries ==
  {FilterQuery(attr, op, lit, sp) :
     attr \in {kAge, kName}, op \in Operators, lit \in Literals, sp \in {<<>>, Blank}}
  \cup {NoFilter(<<>>), NoFilter(Blank), NoFilter(kAge),
        NoFilter(kAge \o <<">", ">", "3">>), NoFilter(kAge \o <<"=", ">", "3">>),
        NoFilter(kAge \o <<">", "=">>), NoFilter(<<">", "3">>),
        NoFilter(kAge \o <<" ", "=", " ", "3">>)}
SearchQueries ==
  {<<>>, Blank, kAge, <<"a", "g", "e">>, <<"a">>, <<"N", "A", "M", "E", "=", "a", "n">>,
   <<"A", "g", "e", "=", "3">>, <<"A", "g", "e", "=", "2", "0", "2", "0">>,
   <<" ", "A", "g", "e", "=", " ", "5", " ">>, <<"A", "g", "e", " ", "=", "3">>,
   <<"A", "g", "e", "=">>}

Preparing == heap.graph[G2].kind = "free" /\ lastOp.op \in {"init", "set_attribute"}

\* g.get_node(id).set_attribute("Age", value), once on a node
QuerySetNodeAttribute(id, value) ==
  /\ Preparing
  /\ NodeObj(heap, G1, id) = Node_init(id, NodeKwargs(id)).val
  /\ Return(set_node_attribute(heap, G1, id, kAge, value), G1, "set_attribute", id, FALSE)

\* g.get_edge("e1").set_attribute(key, value)
QuerySetEdgeAttribute(key, value) ==
  /\ Preparing
  /\ key \notin DOMAIN EdgeObj(heap, G1, idE1).attributes
  /\ Return(set_edge_attribute(heap, G1, idE1, key, value), G1, "set_attribute", idE1, FALSE)

\* the orders in which the set of matching ids may be iterated
IterationOrders(matching) ==
  IF matching.exc = "none"
  THEN {order \in Orders(matching.val) : Len(order) = Cardinality(matching.val)}
  ELSE {<<>>}

Answered(a, op, q) ==
  /\ heap' = Collect(a.heap)
  /\ UNCHANGED <<ws, cli>>
  /\ lastOp' = [op |-> op, q |-> q, exc |-> a.exc]

\* result = service.execute(g, query), matching being the outcome of its
\* first two steps
Queried(matching, op, q) ==
  \E order \in IterationOrders(matching) :
    Answered(execute(heap, G1, G2, matching, order), op, q)

\* result = FilterService().filter(g, query)
Filter(q) ==
  /\ Preparing
  /\ Queried(Filter_matching(heap, G1, q.text), "filter", q)

\* result = SearchService().search(g, query)
Search(q) ==
  /\ Preparing
  /\ Queried(Search_matching(heap, G1, q), "search", q)

NextQuery ==
  \/ \E id \in QueryNodeIds, value \in AgeValues : QuerySetNodeAttribute(id, value)
  \/ QuerySetEdgeAttribute(kDirection, PyStr(<<"x">>))
  \/ \E q \in FilterQueries : Filter(q)
  \/ \E q \in SearchQueries : Search(q)

SpecQuery == InitQuery /\ [][NextQuery]_vars

\* C9: filter and search leave the input graph's nodes, edges, adjacency
\* and attribute values as they were, whether the call returns a graph or
\* raises.
C9_QueriesKeepInput ==
  [][lastOp'.op \in {"filter", "search"} => GraphValue(heap', G1) = GraphValue(heap, G1)]_vars

\* a filter that returned a part of the graph, and the graph still whole
C9_Witness ==
  /\ lastOp.op = "filter" /\ lastOp.exc = "none"
  /\ NodeIdsOf(heap, G2) = {idA, idB}
  /\ EdgeIdsOf(heap, G2) = {idE1}
  /\ NodeIdsOf(heap, G1) = QueryNodeIds
  /\ EdgeIdsOf(heap, G1) = {idE1, idE2}

\* the stored value of node id satisfies op against the literal converted
\* to the node's stored attribute type
Satisfies(H, g, id, q) ==
  compare(NodeObj(H, g, id).attributes[q.attr],
          convert_to_type(PyStr(q.lit), NodeObj(H, g, id).attribute_types[q.attr]).val,
          OperatorName(q.op)).val

\* a type error on node id: the literal does not convert to the stored
\* type or the two values do not compare
TypeErrorOn(H, g, id, q) ==
  \/ convert_to_type(PyStr(q.lit), NodeObj(H, g, id).attribute_types[q.attr]).exc # "none"
  \/ compare(NodeObj(H, g, id).attributes[q.attr],
             convert_to_type(PyStr(q.lit), NodeObj(H, g, id).attribute_types[q.attr]).val,
             OperatorName(q.op)).exc # "none"

Carriers(H, g, q) == {id \in NodeIdsOf(H, g) : q.attr \in DOMAIN NodeObj(H, g, id).attributes}

\* C10: for a well-formed query attr op value on which no type error
\* occurs, filter returns a graph whose nodes are the nodes carrying attr
\* whose stored value satisfies op against the converted literal, and whose
\* edges are the input edges with both endpoints among them.
C10_FilterSelects ==
  [][(/\ lastOp'.op = "filter" /\ lastOp'.q.op # <<>>
      /\ \A id \in Carriers(heap, G1, lastOp'.q) : ~TypeErrorOn(heap, G1, id, lastOp'.q)) =>
       /\ lastOp'.exc = "none"
       /\ NodeIdsOf(heap', G2) =
            {id \in Carriers(heap, G1, lastOp'.q) : Satisfies(heap, G1, id, lastOp'.q)}
       /\ EdgeIdsOf(heap', G2) =
            {id \in EdgeIdsOf(heap, G1) :
               /\ SourceId(heap, EdgeObj(heap, G1, id)) \in NodeIdsOf(heap', G2)
               /\ TargetId(heap, EdgeObj(heap, G1, id)) \in NodeIdsOf(heap', G2)}
       /\ \A id \in EdgeIdsOf(heap', G2) :
            EdgeKept(heap', EdgeObj(heap', G2, id)) = EdgeKept(heap, EdgeObj(heap, G1, id))
    ]_vars

\* C11: when some node carrying the filtered attribute has a stored type the
\* literal does not convert to or compare with, filter raises
\* FilterTypeError and returns no graph, whatever the other nodes hold and
\* wherever the node stands in the graph.
C11_FilterFailsFast ==
  [][(/\ lastOp'.op = "filter" /\ lastOp'.q.op # <<>>
      /\ \E id \in Carriers(heap, G1, lastOp'.q) : TypeErrorOn(heap, G1, id, lastOp'.q)) =>
       /\ lastOp'.exc = "FilterTypeError"
       /\ heap'.graph[G2].kind = "free"
    ]_vars

\* a filter that raised although the first node matches: the last node
\* holds a date, to which the literal 30 does not convert
C11_Witness ==
  /\ lastOp.op = "filter" /\ lastOp.exc = "FilterTypeError"
  /\ lastOp.q.op = <<"=", "=">>
  /\ heap.graph[G2].kind = "free"
  /\ idA \in Carriers(heap, G1, lastOp.q) /\ idC \in Carriers(heap, G1, lastOp.q)
  /\ ~TypeErrorOn(heap, G1, idA, lastOp.q) /\ Satisfies(heap, G1, idA, lastOp.q)
  /\ ~TypeErrorOn(heap, G1, idB, lastOp.q)
  /\ TypeErrorOn(heap, G1, idC, lastOp.q)

\* the nodes a search query asks for: in name=value mode the nodes with an
\* attribute of that name, case-insensitively, whose non-null value
\* rendered as a string contains the value; in bare-token mode the nodes
\* with an attribute whose name contains the token
Searched(H, g, q) ==
  IF VALUE_PATTERN(Strip(q)).ok
  THEN {id \in NodeIdsOf(H, g) :
          \E key \in DOMAIN NodeObj(H, g, id).attributes :
            /\ Lower(key) = Lower(VALUE_PATTERN(Strip(q)).attr)
            /\ NodeObj(H, g, id).attributes[key].k # "None"
            /\ Contains(Lower(Strip(VALUE_PATTERN(Strip(q)).value)),
                        Lower(str_of(NodeObj(H, g, id).attributes[key])))}
  ELSE {id \in NodeIdsOf(H, g) :
          \E key \in DOMAIN NodeObj(H, g, id).attributes :
            Contains(Lower(Strip(q)), Lower(key))}

\* C12: search with a non-blank query returns a graph whose nodes are the
\* nodes the query asks for (by attribute name in bare-token mode, by
\* attribute name and value in name=value mode) and whose edges are the
\* input edges with both endpoints among them.
C12_SearchSelects ==
  [][(lastOp'.op = "search" /\ Strip(lastOp'.q) # <<>>) =>
       /\ lastOp'.exc = "none"
       /\ NodeIdsOf(heap', G2) = Searched(heap, G1, lastOp'.q)
       /\ EdgeIdsOf(heap', G2) =
            {id \in EdgeIdsOf(heap, G1) :
               /\ SourceId(heap, EdgeObj(heap, G1, id)) \in NodeIdsOf(heap', G2)
               /\ TargetId(heap, EdgeObj(heap, G1, id)) \in NodeIdsOf(heap', G2)}
       /\ \A id \in EdgeIdsOf(heap', G2) :
            /\ SourceId(heap', EdgeObj(heap', G2, id)) = SourceId(heap, EdgeObj(heap, G1, id))
            /\ TargetId(heap', EdgeObj(heap', G2, id)) = TargetId(heap, EdgeObj(heap, G1, id))
    ]_vars

(***************************************************************************)
(* copy.deepcopy of a graph: every node and edge the graph reaches is      *)
(* copied once, and the copies refer to each other as the originals do.    *)
(***************************************************************************)
EdgesReached(H, g) ==
  Uniq(DictRefs(H.graph[g].edges) \o
       SetToSeq(UNION {Range(H.graph[g].adjacency_list[n]) :
                         n \in DOMAIN H.graph[g].adjacency_list}))

EndsOf(H, es) == UNION {{H.edge[es[i]].source_node, H.edge[es[i]].target_node} : i \in 1..Len(es)}

NodesReached(H, g) ==
  Uniq(DictRefs(H.graph[g].nodes) \o SetToSeq(EndsOf(H, EdgesReached(H, g)) \ {0}))

\* the copy of the object at old[i] is the object at new[i]
CopyRef(old, new, r) == IF r = 0 THEN 0 ELSE new[IndexOf(old, r)]
CopyDict(d, old, new) ==
  [i \in 1..Len(d) |-> [key |-> d[i].key, ref |-> CopyRef(old, new, d[i].ref)]]

deepcopy_objects(H, g, copy, ns, es, fn, fe) ==
  [node |-> [r \in DOMAIN H.node |->
               IF \E i \in 1..Len(ns) : fn[i] = r THEN H.node[ns[IndexOf(fn, r)]]
               ELSE H.node[r]],
   edge |-> [r \in DOMAIN H.edge |->
               IF \E i \in 1..Len(es) : fe[i] = r
               THEN [H.edge[es[IndexOf(fe, r)]] EXCEPT
                       !.source_node = CopyRef(ns, fn, @),
                       !.target_node = CopyRef(ns, fn, @)]
               ELSE H.edge[r]],
   graph |-> [H.graph EXCEPT
                ![copy] = [H.graph[g] EXCEPT
                             !.nodes = CopyDict(@, ns, fn),
                             !.edges = CopyDict(@, es, fe),
                             !.adjacency_list =
                                [n \in DOMAIN @ |->
                                   [i \in 1..Len(@[n]) |-> CopyRef(es, fe, @[n][i])]]]]]

\* deepcopy(graph), the copy taking the graph slot copy
deepcopy_graph(H, g, copy) ==
  deepcopy_objects(H, g, copy, NodesReached(H, g), EdgesReached(H, g),
                   SetToSeq(FreeSlots(H.node)), SetToSeq(FreeSlots(H.edge)))

(***************************************************************************)
(* Workspace.  The object holds references to its graphs; a graph no       *)
(* reference reaches any more gives its slot back.                         *)
(***************************************************************************)
\* outcome of a Workspace method
WsDone(H, w, val) == [exc |-> "none", heap |-> H, ws |-> w, val |-> val]
WsFail(H, w, e) == [exc |-> e, heap |-> H, ws |-> w, val |-> 0]

Release(H, g) == [H EXCEPT !.graph[g] = Free]

RECURSIVE ReleaseAll(_, _)
ReleaseAll(H, gs) ==
  IF gs = <<>> THEN H ELSE ReleaseAll(Release(H, Head(gs)), Tail(gs))

\* the two deepcopy calls of Workspace.__init__
Workspace_copies(H, graph, max_history, original) ==
  [heap |-> deepcopy_graph(H, graph, NewRef(H.graph)),
   ws |-> [kind |-> "workspace", original_graph |-> original,
           current_graph |-> NewRef(H.graph), history |-> <<>>,
           max_history |-> max_history]]

\* Workspace(graph, max_history=max_history)
Workspace_init(H, graph, max_history) ==
  Workspace_copies(deepcopy_graph(H, graph, NewRef(H.graph)), graph, max_history,
                   NewRef(H.graph))

\* the property that hands out the stored original itself
original_graph_stored(H, w) == WsDone(H, w, w.original_graph)

\* Workspace.original_graph
original_graph(H, w) ==
  WsDone(deepcopy_graph(H, w.original_graph, NewRef(H.graph)), w, NewRef(H.graph))

\* Workspace.current_graph
current_graph(H, w) == WsDone(H, w, w.current_graph)

\* Workspace.history_depth
history_depth(w) == Len(w.history)

\* self._history.append(deepcopy(self._current_graph))
append_snapshot(H, w) ==
  WsDone(deepcopy_graph(H, w.current_graph, NewRef(H.graph)),
         [w EXCEPT !.history = Append(@, NewRef(H.graph))], 0)

\* _push_snapshot that keeps every snapshot
push_snapshot_unbounded(H, w) == append_snapshot(H, w)

\* Workspace._push_snapshot
push_snapshot(H, w) ==
  IF Len(w.history) >= w.max_history
  THEN IF w.history = <<>> THEN WsFail(H, w, "IndexError")
       ELSE append_snapshot(Release(H, Head(w.history)), [w EXCEPT !.history = Tail(@)])
  ELSE append_snapshot(H, w)

\* "self._current_graph = <result>" and the return of it
set_current(r, w) ==
  IF r.exc # "none" THEN WsFail(r.heap, w, r.exc)
  ELSE WsDone(Release(r.heap, w.current_graph), [w EXCEPT !.current_graph = r.val], r.val)

\* Workspace.apply_filter; order is the order in which the service
\* iterates the set of matching ids
filter_pushed(p, query, order) ==
  IF p.exc # "none" THEN p
  ELSE set_current(execute(p.heap, p.ws.current_graph, NewRef(p.heap.graph),
                           Filter_matching(p.heap, p.ws.current_graph, query), order),
                   p.ws)

\* apply_filter that takes the snapshot once current has been replaced
apply_filter_push_after(H, w, query, order) ==
  IF set_current(execute(H, w.current_graph, NewRef(H.graph),
                         Filter_matching(H, w.current_graph, query), order), w).exc # "none"
  THEN set_current(execute(H, w.current_graph, NewRef(H.graph),
                           Filter_matching(H, w.current_graph, query), order), w)
  ELSE push_snapshot(
         set_current(execute(H, w.current_graph, NewRef(H.graph),
                             Filter_matching(H, w.current_graph, query), order), w).heap,
         set_current(execute(H, w.current_graph, NewRef(H.graph),
                             Filter_matching(H, w.current_graph, query), order), w).ws)

apply_filter(H, w, query, order) == filter_pushed(push_snapshot(H, w), query, order)

\* Workspace.apply_search
search_pushed(p, query, order) ==
  IF p.exc # "none" THEN p
  ELSE set_current(execute(p.heap, p.ws.current_graph, NewRef(p.heap.graph),
                           Search_matching(p.heap, p.ws.current_graph, query), order),
                   p.ws)

apply_search(H, w, query, order) == search_pushed(push_snapshot(H, w), query, order)

\* undo that keeps the snapshot on the history
Workspace_undo_peek(H, w) ==
  IF w.history = <<>> THEN WsDone(H, w, 0)
  ELSE WsDone(Release(H, w.current_graph),
              [w EXCEPT !.current_graph = w.history[Len(w.history)]],
              w.history[Len(w.history)])

\* Workspace.undo; the value 0 is None
Workspace_undo(H, w) ==
  IF w.history = <<>> THEN WsDone(H, w, 0)
  ELSE WsDone(Release(H, w.current_graph),
              [w EXCEPT !.current_graph = w.history[Len(w.history)],
                        !.history = SubSeq(@, 1, Len(@) - 1)],
              w.history[Len(w.history)])

\* the deepcopy of Workspace.reset, the history cleared
reset_copy(H, w) ==
  WsDone(deepcopy_graph(H, w.original_graph, NewRef(H.graph)),
         [w EXCEPT !.current_graph = NewRef(H.graph)], NewRef(H.graph))

\* reset that keeps the history
Workspace_reset_keeping(H, w) == reset_copy(Release(H, w.current_graph), w)

\* Workspace.reset
Workspace_reset(H, w) ==
  reset_copy(ReleaseAll(Release(H, w.current_graph), w.history), [w EXCEPT !.history = <<>>])

\* the nodes a query asks for in name=value mode: the attribute name is the
\* text before the first '=', the value the text after it
ValueMode(H, g, s) ==
  find_by_value(H, g, SubSeq(s, 1, FirstIn(s, {"="}) - 1),
                Strip(SubSeq(s, FirstIn(s, {"="}) + 1, Len(s))))

\* the nodes a query asks for in bare-token mode
BareMode(H, g, s) == find_by_name(H, g, s)

\* a search that returned a graph
SearchAnswered == lastOp.op = "search" /\ lastOp.exc = "none"

\* a query of the form word=text is evaluated in name=value mode, a query
\* without '=' in bare-token mode
ModeByPattern ==
  SearchAnswered /\ (VALUE_PATTERN(Strip(lastOp.q)).ok \/ ~Contains(<<"=">>, lastOp.q)) =>
    NodeIdsOf(heap, G2) = (IF Contains(<<"=">>, lastOp.q)
                           THEN ValueMode(heap, G1, Strip(lastOp.q))
                           ELSE BareMode(heap, G1, Strip(lastOp.q)))

\* a query with '=' that is not of the form word=text is evaluated in
\* bare-token mode
OtherQueriesBare ==
  SearchAnswered /\ ~VALUE_PATTERN(Strip(lastOp.q)).ok =>
    NodeIdsOf(heap, G2) = BareMode(heap, G1, Strip(lastOp.q))

\* C37: search selects its mode by the presence of '=' in the query: every
\* non-empty query that contains '=' is evaluated in name=value mode, with
\* the attribute name before the first '=' and the value after it, and a
\* query without '=' in bare-token mode.
C37_ModeByEquals ==
  SearchAnswered =>
    NodeIdsOf(heap, G2) = (IF Contains(<<"=">>, lastOp.q)
                           THEN ValueMode(heap, G1, Strip(lastOp.q))
                           ELSE BareMode(heap, G1, Strip(lastOp.q)))

(***************************************************************************)
(* SpecWorkspace: a Workspace is constructed on the graph A -> B -- C with *)
(* a history capacity of 0..MaxHistory; filters, searches, undo and reset  *)
(* are applied in any order, and between them the caller mutates the graph *)
(* it passed in, the graph current_graph hands out and the graph           *)
(* original_graph hands out.  lastOp records the last call, its query, the *)
(* exception it raised and whether it returned None.                       *)
(***************************************************************************)
WsGraphs == 3 + MaxHistory + 1
\* the objects of a graph a call drops keep their slots until it returns
WsEmptyHeap == [node |-> [r \in 1..(3 * (WsGraphs + 1)) |-> Free],
                edge |-> [r \in 1..(2 * (WsGraphs + 1)) |-> Free],
                graph |-> [r \in 1..WsGraphs |-> Free]]

\* the graph the caller loads
LoadedHeap ==
  add_edge_between(
    add_edge_between(
      add_new_node(
        add_new_node(
          add_new_node([WsEmptyHeap EXCEPT !.graph[G1] = Graph_init(GraphName)],
                       G1, idA).heap,
          G1, idB).heap,
        G1, idC).heap,
      G1, idE1, idA, idB, "DIRECTED").heap,
    G1, idE2, idB, idC, "UNDIRECTED").heap

\* the graphs the caller and the workspace refer to, in a fixed order
WsRoots(w) == Uniq(<<G1, w.original_graph, w.current_graph>> \o w.history)

\* graphs no reference reaches are reclaimed; the others take the slots
\* 1, 2, ... in the order of WsRoots
WsHeap(H, roots) ==
  Collect([H EXCEPT !.graph = [g \in DOMAIN H.graph |->
                                 IF g <= Len(roots) THEN H.graph[roots[g]] ELSE Free]])
WsRefs(w, roots) ==
  [w EXCEPT !.original_graph = IndexOf(roots, @),
            !.current_graph = IndexOf(roots, @),
            !.history = [i \in 1..Len(@) |-> IndexOf(roots, @[i])]]

WsCall(op, q, exc, none) == [op |-> op, q |-> q, exc |-> exc, none |-> none]

InitWs(a) ==
  /\ heap = WsHeap(a.heap, WsRoots(a.ws))
  /\ ws = WsRefs(a.ws, WsRoots(a.ws))
  /\ cli = NoProcessor
  /\ lastOp = WsCall("init", <<>>, "none", FALSE)

InitWorkspace == \E max_history \in 0..MaxHistory : InitWs(Workspace_init(LoadedHeap, G1, max_history))

\* a Workspace method returns
WsReturn(a, op, q) ==
  /\ heap' = WsHeap(a.heap, WsRoots(a.ws))
  /\ ws' = WsRefs(a.ws, WsRoots(a.ws))
  /\ UNCHANGED cli
  /\ lastOp' = WsCall(op, q, a.exc, a.exc = "none" /\ a.val = 0)

WsFilterQueries ==
  {<<"A", "g", "e", ">", "=", "3", "5">>, <<"A", "g", "e", ">", "0">>,
   <<"A", "g", "e", "=", "=", "x">>, <<>>}
WsSearchQueries == {<<"N", "a", "m", "e">>, <<" ">>}

\* each query result is named after the graph it was taken from; the
\* results are taken at most MaxNesting deep
Nestable ==
  Len(heap.graph[ws.current_graph].graph_id) < Len(GraphName) + MaxNesting * Len(SubSuffix)

\* ws.apply_filter(q)
ApplyFilter(q) ==
  /\ Nestable
  /\ \E order \in IterationOrders(Filter_matching(heap, ws.current_graph, q)) :
       WsReturn(apply_filter(heap, ws, q, order), "apply_filter", q)

\* ws.apply_search(q)
ApplySearch(q) ==
  /\ Nestable
  /\ \E order \in IterationOrders(Search_matching(heap, ws.current_graph, q)) :
       WsReturn(apply_search(heap, ws, q, order), "apply_search", q)

\* ws.undo()
Undo == WsReturn(Workspace_undo(heap, ws), "undo", <<>>)

\* ws.reset()
Reset == WsReturn(Workspace_reset(heap, ws), "reset", <<>>)

\* a call on a graph the caller holds returns; the workspace is as it was
CallerReturn(a, op, id) ==
  /\ heap' = WsHeap(a.heap, WsRoots(ws))
  /\ UNCHANGED <<ws, cli>>
  /\ lastOp' = WsCall(op, id, a.exc, FALSE)

\* g.remove_node(id) on the graph passed to the constructor
MutateLoaded(id) ==
  /\ id \in NodeIdsOf(heap, G1)
  /\ CallerReturn(remove_node(heap, G1, id), "loaded.remove_node", id)

\* ws.current_graph.remove_node(id)
MutateCurrent(id) ==
  /\ id \in NodeIdsOf(heap, ws.current_graph)
  /\ CallerReturn(remove_node(heap, current_graph(heap, ws).val, id), "current.remove_node", id)

\* ws.original_graph.remove_node(id)
handed_out_removed(a, id) == remove_node(a.heap, a.val, id)
MutateOriginal(id) ==
  CallerReturn(handed_out_removed(original_graph(heap, ws), id), "original.remove_node", id)

NextWorkspace ==
  \/ \E q \in WsFilterQueries : ApplyFilter(q)
  \/ \E q \in WsSearchQueries : ApplySearch(q)
  \/ Undo
  \/ Reset
  \/ MutateLoaded(idA)
  \/ \E id \in {idA, idB} : MutateCurrent(id)
  \/ MutateOriginal(idA)

SpecWorkspace == InitWorkspace /\ [][NextWorkspace]_vars

\* the snapshots of the history, oldest first, as a caller would see them
HistoryValues(H, w) == [i \in 1..Len(w.history) |-> GraphValue(H, w.history[i])]
CurrentValue(H, w) == GraphValue(H, w.current_graph)

\* the graph the workspace was constructed with
LoadedValue == GraphValue(LoadedHeap, G1)

\* the ids a query selects in the current graph
Selected(H, w, op, q) ==
  IF op = "apply_filter" THEN Filter_matching(H, w.current_graph, q).val
  ELSE Search_matching(H, w.current_graph, q).val

Applies == {"apply_filter", "apply_search"}

\* C13: a successful apply_filter or apply_search leaves on top of the
\* history a snapshot equal to the current graph as it was before the call,
\* makes current the query result (the selected nodes as they were, and the
\* edges between them), and takes history_depth one up, or leaves it at
\* max_history when it was there.
C13_ApplyPushesSnapshot ==
  [][(lastOp'.op \in Applies /\ lastOp'.exc = "none") =>
       /\ ws'.history # <<>>
       /\ GraphValue(heap', ws'.history[Len(ws'.history)]) = CurrentValue(heap, ws)
       /\ NodeIdsOf(heap', ws'.current_graph) = Selected(heap, ws, lastOp'.op, lastOp'.q)
       /\ \A id \in NodeIdsOf(heap', ws'.current_graph) :
            NodeObj(heap', ws'.current_graph, id) = NodeObj(heap, ws.current_graph, id)
       /\ EdgeIdsOf(heap', ws'.current_graph) =
            {id \in EdgeIdsOf(heap, ws.current_graph) :
               /\ SourceId(heap, EdgeObj(heap, ws.current_graph, id))
                    \in NodeIdsOf(heap', ws'.current_graph)
               /\ TargetId(heap, EdgeObj(heap, ws.current_graph, id))
                    \in NodeIdsOf(heap', ws'.current_graph)}
       /\ history_depth(ws') =
            IF history_depth(ws) < ws.max_history THEN history_depth(ws) + 1
            ELSE ws.max_history
    ]_vars

\* a filter that returned A and B with the edge between them, its snapshot
\* the whole graph
C13_Witness ==
  /\ lastOp.op = "apply_filter" /\ lastOp.exc = "none"
  /\ NodeIdsOf(heap, ws.current_graph) = {idA, idB}
  /\ EdgeIdsOf(heap, ws.current_graph) = {idE1}
  /\ history_depth(ws) = 1
  /\ HistoryValues(heap, ws)[1] = LoadedValue

\* C14: undo on a non-empty history makes current equal to the snapshot on
\* top of it and takes history_depth one down, the snapshots below staying;
\* on an empty history it returns None and current, original and the
\* history stay.  The snapshot on top is the graph as it was before the
\* latest apply call.
C14_UndoRestores ==
  [][/\ (lastOp'.op = "undo" /\ ws.history # <<>>) =>
          /\ lastOp'.exc = "none" /\ ~lastOp'.none
          /\ CurrentValue(heap', ws') = GraphValue(heap, ws.history[Len(ws.history)])
          /\ history_depth(ws') = history_depth(ws) - 1
          /\ HistoryValues(heap', ws') = SubSeq(HistoryValues(heap, ws), 1, Len(ws.history) - 1)
     /\ (lastOp'.op = "undo" /\ ws.history = <<>>) =>
          /\ lastOp'.exc = "none" /\ lastOp'.none
          /\ CurrentValue(heap', ws') = CurrentValue(heap, ws)
          /\ GraphValue(heap', ws'.original_graph) = GraphValue(heap, ws.original_graph)
          /\ ws'.history = <<>>
     /\ (lastOp'.op \in Applies /\ lastOp'.exc # "IndexError") =>
          GraphValue(heap', ws'.history[Len(ws'.history)]) = CurrentValue(heap, ws)
    ]_vars

\* an undo that brought back the whole graph, with a snapshot left below
C14_Witness ==
  /\ lastOp.op = "undo" /\ ~lastOp.none
  /\ history_depth(ws) = 1
  /\ NodeIdsOf(heap, ws.current_graph) = {idA, idB}
  /\ HistoryValues(heap, ws)[1] = LoadedValue

\* C15: after reset history_depth is 0, current equals the graph the
\* workspace was constructed with, and an undo that follows returns None.
C15_ResetRestoresLoaded ==
  [][/\ lastOp'.op = "reset" =>
          /\ lastOp'.exc = "none"
          /\ history_depth(ws') = 0
          /\ CurrentValue(heap', ws') = LoadedValue
          /\ Workspace_undo(heap', ws').val = 0
     /\ (lastOp.op = "reset" /\ lastOp'.op = "undo") => lastOp'.none
    ]_vars

\* an undo that returned None after a reset, the loaded graph having lost
\* a node since the construction
C15_Witness ==
  /\ lastOp.op = "undo" /\ lastOp.none
  /\ CurrentValue(heap, ws) = LoadedValue
  /\ idA \notin NodeIdsOf(heap, G1)
  /\ ws.max_history = MaxHistory

\* C16: with max_history >= 1, history_depth never exceeds max_history; a
\* snapshot pushed at capacity drops the oldest one, raises nothing, and
\* the other snapshots keep their order.
C16_HistoryBounded ==
  [][ws.max_history >= 1 =>
       /\ history_depth(ws') <= ws'.max_history
       /\ (lastOp'.op \in Applies /\ history_depth(ws) = ws.max_history) =>
            /\ lastOp'.exc # "IndexError"
            /\ SubSeq(HistoryValues(heap', ws'), 1, ws.max_history - 1) =
                 SubSeq(HistoryValues(heap, ws), 2, ws.max_history)
            /\ HistoryValues(heap', ws')[ws.max_history] = CurrentValue(heap, ws)
    ]_vars

\* three results taken one from the other with a capacity of MaxHistory:
\* the snapshot of the loaded graph has been dropped
C16_Witness ==
  /\ lastOp.op \in Applies /\ lastOp.exc = "none"
  /\ ws.max_history = 2 /\ history_depth(ws) = 2
  /\ Len(heap.graph[ws.current_graph].graph_id) = Len(GraphName) + 3 * Len(SubSuffix)
  /\ HistoryValues(heap, ws)[1] # LoadedValue

\* C17: the stored original, and the graph original_graph returns, equal
\* the graph the workspace was constructed with in every reachable state.
C17_OriginalNeverChanges ==
  /\ GraphValue(heap, ws.original_graph) = LoadedValue
  /\ GraphValue(original_graph(heap, ws).heap, original_graph(heap, ws).val) = LoadedValue

\* the graph original_graph handed out has lost a node, as have the graph
\* passed to the constructor and the current graph, with a snapshot taken
C17_Witness ==
  /\ lastOp.op = "original.remove_node" /\ lastOp.exc = "none"
  /\ idA \notin NodeIdsOf(heap, G1)
  /\ NodeIdsOf(heap, ws.current_graph) = {idA}
  /\ history_depth(ws) = 1

\* C18: an apply_filter or apply_search that raises leaves current,
\* history_depth and the snapshots of the history as they were.
C18_FailedApplyKeepsState ==
  [][(lastOp'.op \in Applies /\ lastOp'.exc # "none") =>
       /\ CurrentValue(heap', ws') = CurrentValue(heap, ws)
       /\ history_depth(ws') = history_depth(ws)
       /\ HistoryValues(heap', ws') = HistoryValues(heap, ws)
    ]_vars

\* the exceptions a query raises by itself
QueryErrors == {"FilterParseError", "FilterTypeError", "SearchParseError"}

\* with max_history = 0 the history stays empty and undo returns None
ZeroHistoryStaysEmpty ==
  ws.max_history = 0 =>
    /\ history_depth(ws) = 0
    /\ lastOp.op = "undo" => lastOp.exc = "none" /\ lastOp.none

\* with max_history = 0 every apply_filter and apply_search raises IndexError
\* and leaves the current graph as it was
ZeroHistoryAppliesRaise ==
  [][ws.max_history = 0 /\ lastOp'.op \in Applies =>
       lastOp'.exc = "IndexError" /\ CurrentValue(heap', ws') = CurrentValue(heap, ws)]_vars

\* C38: a Workspace constructed with max_history = 0 still operates:
\* apply_filter and apply_search raise nothing but what the query itself
\* raises, history_depth is 0 in every reachable state, and undo returns
\* None.
C38_ZeroHistoryOperates ==
  ws.max_history = 0 =>
    /\ lastOp.op \in Applies => lastOp.exc \in {"none"} \cup QueryErrors
    /\ history_depth(ws) = 0
    /\ lastOp.op = "undo" => lastOp.exc = "none" /\ lastOp.none

(***************************************************************************)
(* CommandProcessor: the text of a command is stripped of its comment,     *)
(* split into tokens as shlex.split does, and parsed into a command.       *)
(***************************************************************************)
\* str.rstrip()
RStrip(s) ==
  IF \A i \in 1..Len(s) : s[i] = " " THEN <<>>
  ELSE SubSeq(s, 1, SetMax({i \in 1..Len(s) : s[i] # " "}))

\* the first position from i on that holds one of chars, or Len(s) + 1; the
\* characters before it are read in one step
NextIn(s, i, chars) == SetMin({j \in i..Len(s) : s[j] \in chars} \cup {Len(s) + 1})

ShlexSpecial == {" ", "'", "\"", "\\"}

\* CommandProcessor._strip_comments
RECURSIVE strip_comments(_, _, _, _)
strip_comments(text, i, in_single, in_double) ==
  IF i > Len(text) THEN text
  ELSE IF text[i] = "'" /\ ~in_double THEN strip_comments(text, i + 1, ~in_single, in_double)
  ELSE IF text[i] = "\"" /\ ~in_single THEN strip_comments(text, i + 1, in_single, ~in_double)
  ELSE IF text[i] = "#" /\ ~in_single /\ ~in_double THEN RStrip(SubSeq(text, 1, i - 1))
  ELSE strip_comments(text, NextIn(text, i + 1, {"'", "\"", "#"}), in_single, in_double)

\* shlex.shlex(s, posix=True) with whitespace_split, read to the end; state
\* is " " between tokens, "a" in a word, a quote inside quotes and "\\"
\* after a backslash
RECURSIVE read_token(_, _, _, _, _, _, _)
read_token(s, i, state, escapedstate, token, quoted, tokens) ==
  IF i > Len(s)
  THEN IF state = " " THEN Ret(tokens)
       ELSE IF state = "a" THEN Ret(Append(tokens, token))
       ELSE Raise("ValueError")
  ELSE IF state = " "
  THEN IF s[i] = " " THEN read_token(s, i + 1, " ", escapedstate, <<>>, FALSE, tokens)
       ELSE IF s[i] = "\\" THEN read_token(s, i + 1, "\\", "a", <<>>, FALSE, tokens)
       ELSE IF s[i] \in {"'", "\""} THEN read_token(s, i + 1, s[i], escapedstate, <<>>, TRUE, tokens)
       ELSE read_token(s, NextIn(s, i + 1, ShlexSpecial), "a", escapedstate,
                       SubSeq(s, i, NextIn(s, i + 1, ShlexSpecial) - 1), FALSE, tokens)
  ELSE IF state \in {"'", "\""}
  THEN IF s[i] = state THEN read_token(s, i + 1, "a", escapedstate, token, TRUE, tokens)
       ELSE IF s[i] = "\\" /\ state = "\""
       THEN read_token(s, i + 1, "\\", state, token, TRUE, tokens)
       ELSE read_token(s, NextIn(s, i + 1, IF state = "\"" THEN {state, "\\"} ELSE {state}),
                       state, escapedstate,
                       token \o SubSeq(s, i, NextIn(s, i + 1, IF state = "\"" THEN {state, "\\"}
                                                              ELSE {state}) - 1),
                       TRUE, tokens)
  ELSE IF state = "\\"
  THEN IF escapedstate \in {"'", "\""} /\ s[i] # "\\" /\ s[i] # escapedstate
       THEN read_token(s, i + 1, escapedstate, escapedstate,
                       token \o <<"\\", s[i]>>, quoted, tokens)
       ELSE read_token(s, i + 1, escapedstate, escapedstate, Append(token, s[i]), quoted, tokens)
  ELSE IF s[i] = " " THEN read_token(s, i + 1, " ", escapedstate, <<>>, FALSE, Append(tokens, token))
  ELSE IF s[i] \in {"'", "\""} THEN read_token(s, i + 1, s[i], escapedstate, token, TRUE, tokens)
  ELSE IF s[i] = "\\" THEN read_token(s, i + 1, "\\", "a", token, quoted, tokens)
  ELSE read_token(s, NextIn(s, i + 1, ShlexSpecial), "a", escapedstate,
                  token \o SubSeq(s, i, NextIn(s, i + 1, ShlexSpecial) - 1), quoted, tokens)

\* shlex.split(text)
shlex_split(text) == read_token(text, 1, " ", "a", <<>>, FALSE, <<>>)

\* str.split()
RECURSIVE str_split(_, _, _)
str_split(s, i, tokens) ==
  IF SkipSpaces(s, i) > Len(s) THEN tokens
  ELSE str_split(s, FirstIn(SubSeq(s, SkipSpaces(s, i), Len(s)), {" "}) + SkipSpaces(s, i) - 1,
                 Append(tokens, SubSeq(s, SkipSpaces(s, i),
                                       FirstIn(SubSeq(s, SkipSpaces(s, i), Len(s)), {" "})
                                         + SkipSpaces(s, i) - 2)))

\* "try: tokens = shlex.split(text) except ValueError: tokens = text.split()"
tokens_of(text) ==
  IF shlex_split(text).exc # "none" THEN str_split(text, 1, <<>>) ELSE shlex_split(text).val

\* an optional value: None is the empty sequence
None == <<>>
Some(x) == <<x>>

\* str.startswith
StartsWith(s, p) == Len(s) >= Len(p) /\ SubSeq(s, 1, Len(p)) = p

\* " ".join(tokens)
RECURSIVE Join(_)
Join(tokens) ==
  IF Len(tokens) = 0 THEN <<>>
  ELSE IF Len(tokens) = 1 THEN tokens[1]
  ELSE tokens[1] \o <<" ">> \o Join(Tail(tokens))

\* CommandProcessor._extract_id
RECURSIVE extract_id(_, _, _, _)
extract_id(tokens, i, found_id, remaining) ==
  IF i > Len(tokens)
  THEN IF found_id = None THEN Raise("ValueError")
       ELSE Ret([id |-> found_id[1], remaining |-> remaining])
  ELSE IF StartsWith(tokens[i], <<"-", "-", "i", "d", "=">>)
  THEN extract_id(tokens, i + 1, Some(SubSeq(tokens[i], 6, Len(tokens[i]))), remaining)
  ELSE IF tokens[i] = <<"-", "-", "i", "d">> /\ i + 1 <= Len(tokens)
  THEN extract_id(tokens, i + 2, Some(tokens[i + 1]), remaining)
  ELSE extract_id(tokens, i + 1, found_id, Append(remaining, tokens[i]))

\* "props[key] = value" for the pair kv, if it has an equals sign
RECURSIVE extract_properties(_, _, _, _)
property_added(tokens, next, kv, props, remaining) ==
  IF FirstIn(kv, {"="}) > Len(kv) THEN Raise("ValueError")
  ELSE extract_properties(tokens, next,
                          Put(props, SubSeq(kv, 1, FirstIn(kv, {"="}) - 1),
                              SubSeq(kv, FirstIn(kv, {"="}) + 1, Len(kv))),
                          remaining)

\* CommandProcessor._extract_properties
extract_properties(tokens, i, props, remaining) ==
  IF i > Len(tokens) THEN Ret([props |-> props, remaining |-> remaining])
  ELSE IF tokens[i] = <<"-", "-", "p", "r", "o", "p", "e", "r", "t", "y">> /\ i + 1 <= Len(tokens)
  THEN property_added(tokens, i + 2, tokens[i + 1], props, remaining)
  ELSE IF StartsWith(tokens[i], <<"-", "-", "p", "r", "o", "p", "e", "r", "t", "y", "=">>)
  THEN property_added(tokens, i + 1, SubSeq(tokens[i], 12, Len(tokens[i])), props, remaining)
  ELSE extract_properties(tokens, i + 1, props, Append(remaining, tokens[i]))

\* raw[1:-1] if raw is in quotes
unquoted(raw) ==
  IF Len(raw) >= 2 /\ raw[1] \in {"'", "\""} /\ raw[Len(raw)] = raw[1]
  THEN SubSeq(raw, 2, Len(raw) - 1)
  ELSE raw

\* CommandProcessor._extract_query
extract_query(tokens) == Strip(unquoted(Join(tokens)))

\* the command objects
HelpCommand == [type |-> "help"]
UndoCommand == [type |-> "undo"]
ResetCommand == [type |-> "reset"]
ClearCommand == [type |-> "clear"]
FilterCommand(query) == [type |-> "filter", query |-> query]
SearchCommand(query) == [type |-> "search", query |-> query]
ListCommand(target) == [type |-> "list", target |-> target]
InfoCommand(target_type, target_id) ==
  [type |-> "info", target_type |-> target_type, target_id |-> target_id]
CreateNodeCommand(node_id, properties) ==
  [type |-> "create_node", id |-> node_id, properties |-> properties]
EditNodeCommand(node_id, properties) ==
  [type |-> "edit_node", id |-> node_id, properties |-> properties]
DeleteNodeCommand(node_id) == [type |-> "delete_node", id |-> node_id]
CreateEdgeCommand(edge_id, source_id, target_id, directed, properties) ==
  [type |-> "create_edge", id |-> edge_id, source_id |-> source_id, target_id |-> target_id,
   directed |-> directed, properties |-> properties]
EditEdgeCommand(edge_id, properties) ==
  [type |-> "edit_edge", id |-> edge_id, properties |-> properties]
DeleteEdgeCommand(edge_id) == [type |-> "delete_edge", id |-> edge_id]

\* CommandProcessor._parse_create_node
create_node_with(id, props) ==
  IF props.exc # "none" THEN props ELSE Ret(CreateNodeCommand(id, props.val.props))
parse_create_node_id(id) ==
  IF id.exc # "none" THEN id
  ELSE create_node_with(id.val.id, extract_properties(id.val.remaining, 1, EmptyMap, <<>>))
parse_create_node(tokens) == parse_create_node_id(extract_id(tokens, 1, None, <<>>))

\* the loop of _parse_create_edge over the remaining tokens
RECURSIVE edge_flags(_, _, _, _)
edge_flags(remaining, i, directed, positional) ==
  IF i > Len(remaining) THEN [directed |-> directed, positional |-> positional]
  ELSE IF remaining[i] = <<"-", "-", "d", "i", "r", "e", "c", "t", "e", "d">> THEN edge_flags(remaining, i + 1, TRUE, positional)
  ELSE IF remaining[i] = <<"-", "-", "u", "n", "d", "i", "r", "e", "c", "t", "e", "d">> THEN edge_flags(remaining, i + 1, FALSE, positional)
  ELSE IF ~StartsWith(remaining[i], <<"-", "-">>)
  THEN edge_flags(remaining, i + 1, directed, Append(positional, remaining[i]))
  ELSE edge_flags(remaining, i + 1, directed, positional)

\* CommandProcessor._parse_create_edge
create_edge_of(id, props, flags) ==
  IF Len(flags.positional) < 2 THEN Raise("ValueError")
  ELSE Ret(CreateEdgeCommand(id, flags.positional[Len(flags.positional) - 1],
                             flags.positional[Len(flags.positional)], flags.directed, props))
create_edge_with(id, props) ==
  IF props.exc # "none" THEN props
  ELSE create_edge_of(id, props.val.props, edge_flags(props.val.remaining, 1, TRUE, <<>>))
parse_create_edge_id(id) ==
  IF id.exc # "none" THEN id
  ELSE create_edge_with(id.val.id, extract_properties(id.val.remaining, 1, EmptyMap, <<>>))
parse_create_edge(tokens) == parse_create_edge_id(extract_id(tokens, 1, None, <<>>))

\* CommandProcessor._parse_edit_node and _parse_edit_edge
edit_with(entity, id, props) ==
  IF props.exc # "none" THEN props
  ELSE IF DOMAIN props.val.props = {} THEN Raise("ValueError")
  ELSE IF entity = "node" THEN Ret(EditNodeCommand(id, props.val.props))
  ELSE Ret(EditEdgeCommand(id, props.val.props))
parse_edit_id(entity, id) ==
  IF id.exc # "none" THEN id
  ELSE edit_with(entity, id.val.id, extract_properties(id.val.remaining, 1, EmptyMap, <<>>))
parse_edit(tokens, entity) == parse_edit_id(entity, extract_id(tokens, 1, None, <<>>))

\* CommandProcessor._parse_delete
parse_delete_id(id, entity) ==
  IF id.exc # "none" THEN id
  ELSE IF entity = "node" THEN Ret(DeleteNodeCommand(id.val.id))
  ELSE Ret(DeleteEdgeCommand(id.val.id))
parse_delete(tokens, entity) == parse_delete_id(extract_id(tokens, 1, None, <<>>), entity)

\* the branches of _parse once the text is in tokens
parse_list(tokens) ==
  IF Len(tokens) > 1 /\ Lower(tokens[2]) \notin {<<"n", "o", "d", "e", "s">>, <<"e", "d", "g", "e", "s">>} THEN Raise("ValueError")
  ELSE Ret(ListCommand(IF Len(tokens) > 1 THEN Some(Lower(tokens[2])) ELSE None))

parse_info(tokens) ==
  IF Len(tokens) = 1 THEN Ret(InfoCommand(None, None))
  ELSE IF Lower(tokens[2]) \notin {<<"n", "o", "d", "e">>, <<"e", "d", "g", "e">>} THEN Raise("ValueError")
  ELSE IF Len(tokens) = 2 THEN Raise("ValueError")
  ELSE Ret(InfoCommand(Some(Lower(tokens[2])), Some(tokens[3])))

parse_entity(verb, tokens) ==
  IF Len(tokens) < 2 THEN Raise("ValueError")
  ELSE IF verb = <<"c", "r", "e", "a", "t", "e">> /\ Lower(tokens[2]) = <<"n", "o", "d", "e">>
  THEN parse_create_node(SubSeq(tokens, 3, Len(tokens)))
  ELSE IF verb = <<"c", "r", "e", "a", "t", "e">> /\ Lower(tokens[2]) = <<"e", "d", "g", "e">>
  THEN parse_create_edge(SubSeq(tokens, 3, Len(tokens)))
  ELSE IF verb = <<"e", "d", "i", "t">> /\ Lower(tokens[2]) = <<"n", "o", "d", "e">>
  THEN parse_edit(SubSeq(tokens, 3, Len(tokens)), "node")
  ELSE IF verb = <<"e", "d", "i", "t">> /\ Lower(tokens[2]) = <<"e", "d", "g", "e">>
  THEN parse_edit(SubSeq(tokens, 3, Len(tokens)), "edge")
  ELSE IF verb = <<"d", "e", "l", "e", "t", "e">> /\ Lower(tokens[2]) = <<"n", "o", "d", "e">>
  THEN parse_delete(SubSeq(tokens, 3, Len(tokens)), "node")
  ELSE IF verb = <<"d", "e", "l", "e", "t", "e">> /\ Lower(tokens[2]) = <<"e", "d", "g", "e">>
  THEN parse_delete(SubSeq(tokens, 3, Len(tokens)), "edge")
  ELSE Raise("ValueError")

parse_tokens(tokens) ==
  IF tokens = <<>> THEN Raise("ValueError")
  ELSE IF Lower(tokens[1]) = <<"h", "e", "l", "p">> THEN Ret(HelpCommand)
  ELSE IF Lower(tokens[1]) = <<"u", "n", "d", "o">> THEN Ret(UndoCommand)
  ELSE IF Lower(tokens[1]) = <<"r", "e", "s", "e", "t">> THEN Ret(ResetCommand)
  ELSE IF Lower(tokens[1]) = <<"c", "l", "e", "a", "r">> THEN Ret(ClearCommand)
  ELSE IF Lower(tokens[1]) = <<"f", "i", "l", "t", "e", "r">> THEN Ret(FilterCommand(extract_query(Tail(tokens))))
  ELSE IF Lower(tokens[1]) = <<"s", "e", "a", "r", "c", "h">> THEN Ret(SearchCommand(extract_query(Tail(tokens))))
  ELSE IF Lower(tokens[1]) = <<"l", "i", "s", "t">> THEN parse_list(tokens)
  ELSE IF Lower(tokens[1]) = <<"i", "n", "f", "o">> THEN parse_info(tokens)
  ELSE IF Lower(tokens[1]) \in {<<"c", "r", "e", "a", "t", "e">>, <<"e", "d", "i", "t">>, <<"d", "e", "l", "e", "t", "e">>}
  THEN parse_entity(Lower(tokens[1]), tokens)
  ELSE Raise("ValueError")

\* CommandProcessor._parse
parse(text) == parse_tokens(tokens_of(text))

(***************************************************************************)
(* The commands.  A CommandResult is [success, graph]; a call that raises  *)
(* has exc set.  command is the command object after the call, with the    *)
(* state it saved for its undo.                                            *)
(***************************************************************************)
CommandResult(success, H, graph, command) ==
  [exc |-> "none", success |-> success, heap |-> H, graph |-> graph, command |-> command,
   data |-> EmptyMap]
CommandRaised(H, e, command) ==
  [exc |-> e, success |-> FALSE, heap |-> H, graph |-> 0, command |-> command,
   data |-> EmptyMap]

\* the result of a command whose last call on the graph gave a
command_done(a, graph, command) ==
  IF a.exc # "none" THEN CommandRaised(a.heap, a.exc, command)
  ELSE CommandResult(TRUE, a.heap, graph, command)

\* the keyword arguments **properties: the values are the strings typed
StrValues(properties) == [key \in DOMAIN properties |-> PyStr(properties[key])]

\* node.get_attribute(key) for each key of the new properties
OldProperties(obj, properties) ==
  [key \in DOMAIN properties |->
     IF key \in DOMAIN obj.attributes THEN obj.attributes[key] ELSE PyNone]

\* CreateNodeCommand.execute
node_created(H, graph, n, command) ==
  IF n.exc # "none" THEN CommandRaised(H, n.exc, command)
  ELSE command_done(add_node([H EXCEPT !.node[NewRef(H.node)] = n.val], graph, NewRef(H.node)),
                    graph, command)

\* CreateNodeCommand.execute that sets the properties on the node that exists
\* before it reports the failure
CreateNode_execute_overwriting(H, graph, command) ==
  IF get_node(H, graph, command.id) # 0
  THEN CommandResult(FALSE,
                     with_object(H, "node", get_node(H, graph, command.id),
                                 set_attributes(H.node[get_node(H, graph, command.id)],
                                                StrValues(command.properties),
                                                DOMAIN command.properties)).heap,
                     graph, command)
  ELSE node_created(H, graph, Node_init(command.id, StrValues(command.properties)), command)

\* CreateNodeCommand.execute, the node being absent or not
CreateNode_execute(H, graph, command) ==
  IF get_node(H, graph, command.id) # 0 THEN CommandResult(FALSE, H, graph, command)
  ELSE node_created(H, graph, Node_init(command.id, StrValues(command.properties)), command)

\* EditNodeCommand.execute and EditEdgeCommand.execute on the object found
edited(H, graph, field, ref, command) ==
  command_done(with_object(H, field, ref,
                           set_attributes(H[field][ref], StrValues(command.properties),
                                          DOMAIN command.properties)),
               graph,
               [type |-> command.type, id |-> command.id, properties |-> command.properties,
                old_properties |-> OldProperties(H[field][ref], command.properties)])

EditNode_execute(H, graph, command) ==
  IF get_node(H, graph, command.id) = 0 THEN CommandResult(FALSE, H, graph, command)
  ELSE edited(H, graph, "node", get_node(H, graph, command.id), command)

EditEdge_execute(H, graph, command) ==
  IF get_edge(H, graph, command.id) = 0 THEN CommandResult(FALSE, H, graph, command)
  ELSE edited(H, graph, "edge", get_edge(H, graph, command.id), command)

\* DeleteNodeCommand.execute that removes the node together with its edges
DeleteNode_execute_cascading(H, graph, command) ==
  IF get_node(H, graph, command.id) = 0 THEN CommandResult(FALSE, H, graph, command)
  ELSE command_done(remove_node(H, graph, command.id), graph,
                    [type |-> command.type, id |-> command.id,
                     deleted_node_attrs |-> H.node[get_node(H, graph, command.id)].attributes])

\* DeleteNodeCommand.execute
DeleteNode_execute(H, graph, command) ==
  IF get_node(H, graph, command.id) = 0 THEN CommandResult(FALSE, H, graph, command)
  ELSE IF AdjOf(H.graph[graph], command.id) # <<>> THEN CommandResult(FALSE, H, graph, command)
  ELSE command_done(remove_node(H, graph, command.id), graph,
                    [type |-> command.type, id |-> command.id,
                     deleted_node_attrs |-> H.node[get_node(H, graph, command.id)].attributes])

\* CreateEdgeCommand.execute
edge_created(H, graph, e, command) ==
  IF e.exc # "none" THEN CommandRaised(H, e.exc, command)
  ELSE command_done(add_edge([H EXCEPT !.edge[NewRef(H.edge)] = e.val], graph, NewRef(H.edge)),
                    graph, command)

CreateEdge_execute(H, graph, command) ==
  IF get_node(H, graph, command.source_id) = 0 THEN CommandResult(FALSE, H, graph, command)
  ELSE IF get_node(H, graph, command.target_id) = 0 THEN CommandResult(FALSE, H, graph, command)
  ELSE IF get_edge(H, graph, command.id) # 0 THEN CommandResult(FALSE, H, graph, command)
  ELSE edge_created(H, graph,
                    Edge_init(command.id, get_node(H, graph, command.source_id),
                              get_node(H, graph, command.target_id),
                              IF command.directed THEN "DIRECTED" ELSE "UNDIRECTED",
                              StrValues(command.properties)),
                    command)

\* DeleteEdgeCommand.execute
DeleteEdge_execute(H, graph, command) ==
  IF get_edge(H, graph, command.id) = 0 THEN CommandResult(FALSE, H, graph, command)
  ELSE command_done(remove_edge(H, graph, command.id), graph,
                    [type |-> command.type, id |-> command.id,
                     source_id |-> SourceId(H, H.edge[get_edge(H, graph, command.id)]),
                     target_id |-> TargetId(H, H.edge[get_edge(H, graph, command.id)]),
                     directed |-> H.edge[get_edge(H, graph, command.id)].direction = "DIRECTED",
                     attrs |-> H.edge[get_edge(H, graph, command.id)].attributes])

\* "for node_id in list(graph.nodes.keys()): graph.remove_node(node_id)"
RECURSIVE remove_nodes(_, _, _)
remove_nodes(H, graph, ids) ==
  IF ids = <<>> THEN Done(H)
  ELSE remove_nodes(remove_node(H, graph, Head(ids)).heap, graph, Tail(ids))

\* ClearCommand.execute; the backup is a graph of its own
Clear_execute(H, graph, command) ==
  command_done(remove_nodes(remove_edges(deepcopy_graph(H, graph, NewRef(H.graph)), graph,
                                         EdgeIdsOf(H, graph)),
                            graph,
                            [i \in 1..Len(H.graph[graph].nodes) |-> H.graph[graph].nodes[i].key]),
               graph, [type |-> command.type, backup |-> NewRef(H.graph)])

\* FilterCommand.execute and SearchCommand.execute: "except Exception"
queried(H, graph, r, command) ==
  IF r.exc # "none" THEN CommandResult(FALSE, H, graph, command)
  ELSE CommandResult(TRUE, r.heap, r.val, command)

\* FilterCommand.execute that drops the other nodes from the graph it is given
Filter_execute_in_place(H, graph, command, order) ==
  queried(H, graph,
          execute_pruning(H, graph, NewRef(H.graph),
                          Filter_matching(H, graph, command.query), order),
          command)

\* FilterCommand.execute
Filter_execute(H, graph, command, order) ==
  queried(H, graph,
          execute(H, graph, NewRef(H.graph), Filter_matching(H, graph, command.query), order),
          command)

Search_execute(H, graph, command, order) ==
  queried(H, graph,
          execute(H, graph, NewRef(H.graph), Search_matching(H, graph, command.query), order),
          command)

\* InfoCommand.execute; no node and no edge has the id None, so
\* graph.get_node(None) and graph.get_edge(None) find nothing
Info_execute(H, graph, command) ==
  IF command.target_type = None THEN CommandResult(TRUE, H, graph, command)
  ELSE IF command.target_type[1] = <<"n", "o", "d", "e">>
  THEN CommandResult(/\ command.target_id # None
                     /\ get_node(H, graph, command.target_id[1]) # 0,
                     H, graph, command)
  ELSE IF command.target_type[1] = <<"e", "d", "g", "e">>
  THEN CommandResult(/\ command.target_id # None
                     /\ get_edge(H, graph, command.target_id[1]) # 0,
                     H, graph, command)
  ELSE CommandResult(FALSE, H, graph, command)

\* supports_undo of a command that every subclass overrides with True
supports_undo_always(command) == TRUE

\* Command.supports_undo
supports_undo(command) ==
  command.type \in {"create_node", "edit_node", "delete_node",
                    "create_edge", "edit_edge", "delete_edge", "clear"}

\* command.execute(graph) for the commands that are no query
Command_execute(H, graph, command) ==
  CASE command.type = "create_node" -> CreateNode_execute(H, graph, command)
    [] command.type = "edit_node" -> EditNode_execute(H, graph, command)
    [] command.type = "delete_node" -> DeleteNode_execute(H, graph, command)
    [] command.type = "create_edge" -> CreateEdge_execute(H, graph, command)
    [] command.type = "edit_edge" -> EditEdge_execute(H, graph, command)
    [] command.type = "delete_edge" -> DeleteEdge_execute(H, graph, command)
    [] command.type = "clear" -> Clear_execute(H, graph, command)
    [] command.type = "info" -> Info_execute(H, graph, command)
    [] OTHER -> CommandResult(TRUE, H, graph, command)

(***************************************************************************)
(* Command.undo.  The command is the object as its execute left it; a      *)
(* command whose execute saved nothing has the fields of __init__: empty   *)
(* dicts, no source, no target, no backup.                                 *)
(***************************************************************************)
Saved(command, name, default) ==
  IF name \in DOMAIN command THEN command[name] ELSE default

\* CreateNodeCommand.undo: the edges of the node are removed first
CreateNode_undo(H, graph, command) ==
  IF get_node(H, graph, command.id) = 0 THEN CommandResult(FALSE, H, graph, command)
  ELSE command_done(remove_node(remove_edges(H, graph,
                                             EdgeIdSet(H, AdjOf(H.graph[graph], command.id))),
                                graph, command.id),
                    graph, command)

\* "for key, old_value in self._old_properties.items()": an old value of
\* None deletes the attribute, any other is set again
RECURSIVE restore_attributes(_, _, _), restore_after(_, _, _)
restore_attributes(obj, old_properties, keys) ==
  IF keys = {} THEN Ret(obj)
  ELSE restore_after(IF old_properties[Pick(keys)] = PyNone
                     THEN Ret(Node_delete_attribute(obj, Pick(keys)))
                     ELSE Node_set_attribute(obj, Pick(keys), old_properties[Pick(keys)]),
                     old_properties, keys \ {Pick(keys)})

restore_after(r, old_properties, keys) ==
  IF r.exc # "none" THEN r ELSE restore_attributes(r.val, old_properties, keys)

\* EditNodeCommand.undo and EditEdgeCommand.undo on the object found
restored(H, graph, field, ref, command) ==
  command_done(with_object(H, field, ref,
                           restore_attributes(H[field][ref],
                                              Saved(command, "old_properties", EmptyMap),
                                              DOMAIN Saved(command, "old_properties", EmptyMap))),
               graph, command)

EditNode_undo(H, graph, command) ==
  IF get_node(H, graph, command.id) = 0 THEN CommandResult(FALSE, H, graph, command)
  ELSE restored(H, graph, "node", get_node(H, graph, command.id), command)

EditEdge_undo(H, graph, command) ==
  IF get_edge(H, graph, command.id) = 0 THEN CommandResult(FALSE, H, graph, command)
  ELSE restored(H, graph, "edge", get_edge(H, graph, command.id), command)

\* DeleteNodeCommand.undo that puts its node over the one that is there
DeleteNode_undo_replacing(H, graph, command) ==
  node_created(drop_node(H, graph, command.id).heap, graph,
               Node_init(command.id, Saved(command, "deleted_node_attrs", EmptyMap)), command)

\* DeleteNodeCommand.undo
DeleteNode_undo(H, graph, command) ==
  IF get_node(H, graph, command.id) # 0 THEN CommandResult(FALSE, H, graph, command)
  ELSE node_created(H, graph,
                    Node_init(command.id, Saved(command, "deleted_node_attrs", EmptyMap)),
                    command)

\* CreateEdgeCommand.undo
CreateEdge_undo(H, graph, command) ==
  IF get_edge(H, graph, command.id) = 0 THEN CommandResult(FALSE, H, graph, command)
  ELSE command_done(remove_edge(H, graph, command.id), graph, command)

\* DeleteEdgeCommand.undo; graph.get_node(None) is None
DeleteEdge_undo(H, graph, command) ==
  IF get_edge(H, graph, command.id) # 0 THEN CommandResult(FALSE, H, graph, command)
  ELSE IF "source_id" \notin DOMAIN command THEN CommandResult(FALSE, H, graph, command)
  ELSE IF \/ get_node(H, graph, command.source_id) = 0
          \/ get_node(H, graph, command.target_id) = 0
  THEN CommandResult(FALSE, H, graph, command)
  ELSE edge_created(H, graph,
                    Edge_init(command.id, get_node(H, graph, command.source_id),
                              get_node(H, graph, command.target_id),
                              IF command.directed THEN "DIRECTED" ELSE "UNDIRECTED",
                              command.attrs),
                    command)

\* ClearCommand.undo: the result carries the backup
Clear_undo(H, graph, command) ==
  IF "backup" \notin DOMAIN command THEN CommandResult(FALSE, H, graph, command)
  ELSE CommandResult(TRUE, H, command.backup, command)

\* command.undo(graph); the base class reports that undo is not supported
Command_undo(H, graph, command) ==
  CASE command.type = "create_node" -> CreateNode_undo(H, graph, command)
    [] command.type = "edit_node" -> EditNode_undo(H, graph, command)
    [] command.type = "delete_node" -> DeleteNode_undo(H, graph, command)
    [] command.type = "create_edge" -> CreateEdge_undo(H, graph, command)
    [] command.type = "edit_edge" -> EditEdge_undo(H, graph, command)
    [] command.type = "delete_edge" -> DeleteEdge_undo(H, graph, command)
    [] command.type = "clear" -> Clear_undo(H, graph, command)
    [] OTHER -> CommandResult(FALSE, H, graph, command)

(***************************************************************************)
(* CommandProcessor.  undo_stack holds pairs of a command and a graph      *)
(* reference; the outcome of process is the CommandResult with the         *)
(* processor's stack after the call.                                       *)
(***************************************************************************)
max_undo == 50

\* data={"action": "reset"}
ResetData == <<"a", "c", "t", "i", "o", "n">> :> <<"r", "e", "s", "e", "t">>

Processed(result, undo_stack) ==
  [exc |-> result.exc, success |-> result.success, heap |-> result.heap,
   graph |-> result.graph, data |-> result.data, undo_stack |-> undo_stack]

\* _push_undo that never drops an entry
push_undo_unbounded(undo_stack, command, graph_snapshot) ==
  Append(undo_stack, [command |-> command, graph |-> graph_snapshot])

\* CommandProcessor._push_undo
push_undo(undo_stack, command, graph_snapshot) ==
  IF Len(undo_stack) >= max_undo
  THEN Append(Tail(undo_stack), [command |-> command, graph |-> graph_snapshot])
  ELSE Append(undo_stack, [command |-> command, graph |-> graph_snapshot])

\* the pop of _do_undo taking the oldest entry
pop_oldest(H, undo_stack) ==
  Processed(CommandResult(TRUE, H, undo_stack[1].graph, UndoCommand), Tail(undo_stack))

\* "command, old_graph = self._undo_stack.pop()" and the result with old_graph
pop_entry(H, undo_stack) ==
  Processed(CommandResult(TRUE, H, undo_stack[Len(undo_stack)].graph, UndoCommand),
            SubSeq(undo_stack, 1, Len(undo_stack) - 1))

\* _do_undo that pops the entry and returns the graph it was passed
do_undo_keeping(H, undo_stack, graph) ==
  IF undo_stack = <<>>
  THEN Processed(CommandResult(FALSE, H, graph, UndoCommand), undo_stack)
  ELSE Processed(CommandResult(TRUE, H, graph, UndoCommand),
                 SubSeq(undo_stack, 1, Len(undo_stack) - 1))

\* CommandProcessor._do_undo
do_undo(H, undo_stack, graph) ==
  IF undo_stack = <<>>
  THEN Processed(CommandResult(FALSE, H, graph, UndoCommand), undo_stack)
  ELSE pop_entry(H, undo_stack)

\* the reset of _execute that empties the undo stack
reset_clearing(H, undo_stack, command, graph) ==
  Processed([CommandResult(TRUE, H, graph, command) EXCEPT !.data = ResetData], <<>>)

\* the reset of _execute: the sentinel for the platform or web layer
reset_sentinel(H, undo_stack, command, graph) ==
  Processed([CommandResult(TRUE, H, graph, command) EXCEPT !.data = ResetData], undo_stack)

\* the end of _execute: the entry is pushed if the command succeeded
pushed_if(result, push, undo_stack, graph_snapshot) ==
  IF result.exc = "none" /\ result.success /\ push
  THEN Processed(result, push_undo(undo_stack, result.command, graph_snapshot))
  ELSE Processed(result, undo_stack)

\* the standard mutating commands of _execute, snapshot being the slot of
\* the copy taken before
execute_standard(H, undo_stack, command, graph, snapshot) ==
  pushed_if(Command_execute(IF supports_undo(command) THEN deepcopy_graph(H, graph, snapshot)
                            ELSE H,
                            graph, command),
            supports_undo(command), undo_stack, snapshot)

\* _execute that saves the graph the caller passed in
Processor_execute_sharing(H, undo_stack, command, graph, order) ==
  IF command.type = "undo" THEN do_undo(H, undo_stack, graph)
  ELSE IF command.type = "reset"
  THEN reset_sentinel(H, undo_stack, command, graph)
  ELSE IF command.type = "filter"
  THEN pushed_if(Filter_execute(H, graph, command, order), TRUE, undo_stack, graph)
  ELSE IF command.type = "search"
  THEN pushed_if(Search_execute(H, graph, command, order), TRUE, undo_stack, graph)
  ELSE pushed_if(Command_execute(H, graph, command), supports_undo(command), undo_stack, graph)

\* CommandProcessor._execute; order is the order in which a query service
\* iterates the set of matching ids
Processor_execute(H, undo_stack, command, graph, order) ==
  IF command.type = "undo" THEN do_undo(H, undo_stack, graph)
  ELSE IF command.type = "reset"
  THEN reset_sentinel(H, undo_stack, command, graph)
  ELSE IF command.type = "filter"
  THEN pushed_if(Filter_execute(H, graph, command, order), TRUE, undo_stack, graph)
  ELSE IF command.type = "search"
  THEN pushed_if(Search_execute(H, graph, command, order), TRUE, undo_stack, graph)
  ELSE execute_standard(H, undo_stack, command, graph, NewRef(H.graph))

\* process once the text is parsed
process_parsed(H, undo_stack, command, graph, order) ==
  IF command.exc # "none"
  THEN Processed(CommandResult(FALSE, H, graph, command), undo_stack)
  ELSE Processor_execute(H, undo_stack, command.val, graph, order)

\* process once the text is stripped of its comment and its blanks
process_stripped(H, undo_stack, text, graph, order) ==
  IF text = <<>> THEN Processed(CommandResult(FALSE, H, graph, None), undo_stack)
  ELSE process_parsed(H, undo_stack, parse(text), graph, order)

\* CommandProcessor.process
process(H, undo_stack, text, graph, order) ==
  process_stripped(H, undo_stack, Strip(strip_comments(text, 1, FALSE, FALSE)), graph, order)

(***************************************************************************)
(* SpecCli: a caller feeds command texts to one CommandProcessor, starting *)
(* with the graph A -> B, and continues each time with the graph of the    *)
(* result; after an exception it keeps the graph it had.  lastOp records   *)
(* the text, the exception that escaped, the success flag of the result,   *)
(* what the graph passed in looked like before the call, and the number n  *)
(* of calls so far.                                                        *)
(***************************************************************************)
CliGraphs == 2 * MaxCliOps + 3

CliEmptyHeap == [node |-> [r \in 1..(3 * CliGraphs) |-> Free],
                 edge |-> [r \in 1..(2 * CliGraphs) |-> Free],
                 graph |-> [r \in 1..CliGraphs |-> Free]]

\* the graph the caller starts with
CliHeap ==
  add_edge_between(
    add_new_node(
      add_new_node([CliEmptyHeap EXCEPT !.graph[G1] = Graph_init(GraphName)],
                   G1, idA).heap,
      G1, idB).heap,
    G1, idE1, idA, idB, "DIRECTED").heap

\* the graphs an entry of the undo stack refers to
EntryGraphs(entry) ==
  IF entry.command.type = "clear" THEN <<entry.graph, entry.command.backup>>
  ELSE <<entry.graph>>

RECURSIVE StackGraphs(_)
StackGraphs(undo_stack) ==
  IF undo_stack = <<>> THEN <<>>
  ELSE EntryGraphs(Head(undo_stack)) \o StackGraphs(Tail(undo_stack))

\* the graphs the caller and the processor refer to, in a fixed order
CliRoots(c) == Uniq(<<c.graph>> \o StackGraphs(c.undo_stack))

CliEntryRefs(entry, roots) ==
  [graph |-> IndexOf(roots, entry.graph),
   command |-> IF entry.command.type = "clear"
               THEN [entry.command EXCEPT !.backup = IndexOf(roots, @)]
               ELSE entry.command]

CliRefs(c, roots) ==
  [kind |-> "processor",
   graph |-> IndexOf(roots, c.graph),
   undo_stack |-> [i \in 1..Len(c.undo_stack) |-> CliEntryRefs(c.undo_stack[i], roots)]]

\* CommandProcessor()
Processor_init(graph) == [kind |-> "processor", graph |-> graph, undo_stack |-> <<>>]

\* what the caller sees of the objects: returned is "input" when
\* result.graph is the graph passed in, "top" when it is the graph of the
\* entry that was on top of the stack, "new" otherwise; top_is_input tells
\* whether the entry on top after the call holds the graph passed in
Returned(a, c) ==
  IF a.exc # "none" THEN "none"
  ELSE IF a.graph = c.graph THEN "input"
  ELSE IF c.undo_stack # <<>> /\ a.graph = c.undo_stack[Len(c.undo_stack)].graph THEN "top"
  ELSE "new"

TopIsInput(a, c) ==
  a.undo_stack # <<>> /\ a.undo_stack[Len(a.undo_stack)].graph = c.graph

CliCall(text, exc, success, before, n, data, returned, top_is_input) ==
  [op |-> "process", text |-> text, exc |-> exc, success |-> success,
   before |-> before, n |-> n, data |-> data, returned |-> returned,
   top_is_input |-> top_is_input]

InitCli ==
  /\ heap = WsHeap(CliHeap, <<G1>>)
  /\ ws = NoWorkspace
  /\ cli = Processor_init(G1)
  /\ lastOp = CliCall(<<>>, "none", FALSE, GraphValue(CliHeap, G1), 0, EmptyMap, "none", FALSE)

\* the caller's graph after the call with outcome a
continued(a) == IF a.exc = "none" THEN a.graph ELSE cli.graph

\* processor.process(text, graph) returns
CliReturn(a, text) ==
  /\ heap' = WsHeap(a.heap, CliRoots([graph |-> continued(a), undo_stack |-> a.undo_stack]))
  /\ cli' = CliRefs([graph |-> continued(a), undo_stack |-> a.undo_stack],
                    CliRoots([graph |-> continued(a), undo_stack |-> a.undo_stack]))
  /\ UNCHANGED ws
  /\ lastOp' = CliCall(text, a.exc, a.success, GraphValue(heap, cli.graph), lastOp.n + 1,
                       a.data, Returned(a, cli), TopIsInput(a, cli))

\* the set of ids a query command iterates
command_matching(H, graph, command) ==
  IF command.exc # "none" THEN Raise(command.exc)
  ELSE IF command.val.type = "filter" THEN Filter_matching(H, graph, command.val.query)
  ELSE IF command.val.type = "search" THEN Search_matching(H, graph, command.val.query)
  ELSE Raise("no query")

text_matching(H, graph, text) ==
  IF text = <<>> THEN Raise("no query") ELSE command_matching(H, graph, parse(text))

CliTexts ==
  {<<"c", "r", "e", "a", "t", "e", " ", "n", "o", "d", "e", " ", "-", "-", "i", "d", "=", "C", " ", "-", "-", "p", "r", "o", "p", "e", "r", "t", "y", " ", "A", "g", "e", "=", "5">>,
   <<"c", "r", "e", "a", "t", "e", " ", "n", "o", "d", "e", " ", "-", "-", "i", "d", "=", "A", " ", "-", "-", "p", "r", "o", "p", "e", "r", "t", "y", " ", "A", "g", "e", "=", "1">>,
   <<"c", "r", "e", "a", "t", "e", " ", "n", "o", "d", "e", " ", "-", "-", "i", "d", "=", "D", " ", "-", "-", "p", "r", "o", "p", "e", "r", "t", "y", " ", "n", "o", "d", "e", "_", "i", "d", "=", "x">>,
   <<"e", "d", "i", "t", " ", "n", "o", "d", "e", " ", "-", "-", "i", "d", "=", "A", " ", "-", "-", "p", "r", "o", "p", "e", "r", "t", "y", " ", "A", "g", "e", "=", "4", "0">>,
   <<"e", "d", "i", "t", " ", "n", "o", "d", "e", " ", "-", "-", "i", "d", "=", "Z", " ", "-", "-", "p", "r", "o", "p", "e", "r", "t", "y", " ", "A", "g", "e", "=", "1">>,
   <<"d", "e", "l", "e", "t", "e", " ", "n", "o", "d", "e", " ", "-", "-", "i", "d", "=", "C">>,
   <<"d", "e", "l", "e", "t", "e", " ", "n", "o", "d", "e", " ", "-", "-", "i", "d", "=", "A">>,
   <<"c", "r", "e", "a", "t", "e", " ", "e", "d", "g", "e", " ", "-", "-", "i", "d", "=", "e", "2", " ", "-", "-", "u", "n", "d", "i", "r", "e", "c", "t", "e", "d", " ", "A", " ", "C">>,
   <<"e", "d", "i", "t", " ", "e", "d", "g", "e", " ", "-", "-", "i", "d", "=", "e", "1", " ", "-", "-", "p", "r", "o", "p", "e", "r", "t", "y", " ", "W", "e", "i", "g", "h", "t", "=", "2">>,
   <<"d", "e", "l", "e", "t", "e", " ", "e", "d", "g", "e", " ", "-", "-", "i", "d", "=", "e", "1", " ", " ", " ", "#", " ", "d", "r", "o", "p", " ", "i", "t">>,
   <<"c", "l", "e", "a", "r">>,
   <<"f", "i", "l", "t", "e", "r", " ", "A", "g", "e", " ", ">", "=", " ", "3", "5">>,
   <<"f", "i", "l", "t", "e", "r", " ", "A", "g", "e", " ", "=", "=", " ", "x">>,
   <<"s", "e", "a", "r", "c", "h", " ", "N", "a", "m", "e">>,
   <<"u", "n", "d", "o">>,
   <<"c", "r", "e", "a", "t", "e", " ", "n", "o", "d", "e">>,
   <<"f", "i", "l", "t", "e", "r", " ", "A", "g", "e">>,
   <<"s", "e", "a", "r", "c", "h", " ", "'", " ", "'">>,
   <<"r", "e", "s", "e", "t">>,
   <<"h", "e", "l", "p">>,
   <<"i", "n", "f", "o">>,
   <<"i", "n", "f", "o", " ", "n", "o", "d", "e", " ", "A">>,
   <<"i", "n", "f", "o", " ", "n", "o", "d", "e", " ", "Z">>,
   <<"i", "n", "f", "o", " ", "e", "d", "g", "e", " ", "e", "1">>,
   <<"l", "i", "s", "t">>,
   <<"l", "i", "s", "t", " ", "n", "o", "d", "e", "s">>,
   <<"l", "i", "s", "t", " ", "e", "d", "g", "e", "s">>,
   <<"d", "e", "l", "e", "t", "e", " ", "n", "o", "d", "e", " ", "-", "-", "i", "d", "=", "B">>,
   <<"c", "r", "e", "a", "t", "e", " ", "e", "d", "g", "e", " ", "-", "-", "i", "d", "=", "e", "3", " ", "C", " ", "C">>,
   <<"c", "r", "e", "a", "t", "e", " ", "e", "d", "g", "e", " ", "-", "-", "i", "d", "=", "e", "4", " ", "-", "-", "p", "r", "o", "p", "e", "r", "t", "y", " ", "d", "i", "r", "e", "c", "t", "i", "o", "n", "=", "x", " ", "A", " ", "B">>,
   <<"e", "d", "i", "t", " ", "e", "d", "g", "e", " ", "-", "-", "i", "d", "=", "e", "1", " ", "-", "-", "p", "r", "o", "p", "e", "r", "t", "y", " ", "d", "i", "r", "e", "c", "t", "i", "o", "n", "=", "x">>,
   <<"i", "n", "f", "o", " ", "f", "o", "o", " ", "Z">>,
   <<"l", "i", "s", "t", " ", "f", "o", "o">>,
   <<>>}

\* result = processor.process(text, graph)
Process(text) ==
  /\ lastOp.n < MaxCliOps
  /\ \E order \in IterationOrders(text_matching(heap, cli.graph,
                                                Strip(strip_comments(text, 1, FALSE, FALSE)))) :
       CliReturn(process(heap, cli.undo_stack, text, cli.graph, order), text)

NextCli == \E text \in CliTexts : Process(text)

SpecCli == InitCli /\ [][NextCli]_vars

(***************************************************************************)
(* Vocabulary of the claims about the processor.                           *)
(***************************************************************************)
\* the entries of the undo stack as a caller sees them: the kind of the
\* command and what the saved graph looks like
StackEntries(H, c) ==
  [i \in 1..Len(c.undo_stack) |->
     [type |-> c.undo_stack[i].command.type, graph |-> GraphValue(H, c.undo_stack[i].graph)]]

\* the kind of command a text parses to, "none" if it does not parse
CommandType(text) ==
  IF parse(Strip(strip_comments(text, 1, FALSE, FALSE))).exc # "none" THEN "none"
  ELSE parse(Strip(strip_comments(text, 1, FALSE, FALSE))).val.type

MutatingTypes == {"create_node", "edit_node", "delete_node",
                  "create_edge", "edit_edge", "delete_edge", "clear"}
UndoCapableTypes == MutatingTypes \cup {"filter", "search"}

\* the stack once a further entry is pushed on it
Pushed(entries, entry) ==
  IF Len(entries) >= max_undo THEN Append(Tail(entries), entry) ELSE Append(entries, entry)

\* C19: a create, edit, delete or clear command that succeeds through
\* process pushes exactly one entry on the undo stack, whose graph equals
\* the graph as it was before the command ran; a call whose result reports
\* failure, the text that does not parse included, leaves the stack as it was.
C19_PushOnSuccessOnly ==
  [][/\ (lastOp'.success /\ CommandType(lastOp'.text) \in MutatingTypes)
          => StackEntries(heap', cli')
               = Pushed(StackEntries(heap, cli),
                        [type |-> CommandType(lastOp'.text),
                         graph |-> GraphValue(heap, cli.graph)])
     /\ (lastOp'.exc = "none" /\ ~lastOp'.success)
          => StackEntries(heap', cli') = StackEntries(heap, cli)]_vars

\* a second command has succeeded and changed the graph, and the stack holds
\* the two graphs before
C19_Witness ==
  /\ lastOp.success
  /\ CommandType(lastOp.text) = "edit_node"
  /\ Len(cli.undo_stack) = 2
  /\ GraphValue(heap, cli.undo_stack[2].graph) = lastOp.before
  /\ GraphValue(heap, cli.graph) # lastOp.before
  /\ GraphValue(heap, cli.undo_stack[1].graph) # lastOp.before

\* C20: after an undo-capable command (create, edit, delete, clear, filter,
\* search) has succeeded through process, an undo that follows immediately
\* succeeds and returns a graph equal to the graph before the command: same
\* nodes, same edges with their endpoints and directions, same attributes.
C20_UndoSymmetry ==
  [][(/\ lastOp.success
      /\ CommandType(lastOp.text) \in UndoCapableTypes
      /\ lastOp'.text = <<"u", "n", "d", "o">>)
       => /\ lastOp'.exc = "none"
          /\ lastOp'.success
          /\ GraphValue(heap', cli'.graph) = lastOp.before]_vars

\* the second call is an undo that gives back the graph the caller started
\* with, which the first call had changed
C20_Witness ==
  /\ lastOp.n = 2
  /\ lastOp.text = <<"u", "n", "d", "o">>
  /\ lastOp.success
  /\ GraphValue(heap, cli.graph) = GraphValue(CliHeap, G1)
  /\ lastOp.before # GraphValue(CliHeap, G1)
  /\ cli.undo_stack = <<>>

\* C22: process('undo') with an empty undo stack returns a failed result
\* whose graph is the graph passed in and changes neither that graph nor the
\* stack; with a non-empty stack it removes exactly the top entry and
\* returns the graph saved in that entry.
C22_UndoPopsOrFails ==
  [][lastOp'.text = <<"u", "n", "d", "o">>
       => /\ lastOp'.exc = "none"
          /\ cli.undo_stack = <<>>
               => /\ ~lastOp'.success
                  /\ lastOp'.returned = "input"
                  /\ GraphValue(heap', cli'.graph) = GraphValue(heap, cli.graph)
                  /\ cli'.undo_stack = <<>>
          /\ cli.undo_stack # <<>>
               => /\ lastOp'.success
                  /\ lastOp'.returned = "top"
                  /\ GraphValue(heap', cli'.graph)
                       = GraphValue(heap, cli.undo_stack[Len(cli.undo_stack)].graph)
                  /\ StackEntries(heap', cli')
                       = SubSeq(StackEntries(heap, cli), 1, Len(cli.undo_stack) - 1)]_vars

\* the third call is an undo that popped the only entry of the stack and
\* returned its graph, which differs from the graph passed in
C22_Witness ==
  /\ lastOp.n = 3
  /\ lastOp.text = <<"u", "n", "d", "o">>
  /\ lastOp.success
  /\ lastOp.returned = "top"
  /\ cli.undo_stack = <<>>
  /\ GraphValue(heap, cli.graph) # lastOp.before

QueryTypes == {"filter", "search"}

\* C23: a filter or search that succeeds through process leaves the input
\* graph as it was, returns a new graph as result.graph and pushes exactly
\* one undo entry, which holds the input graph itself, so that an undo right
\* after returns that very graph; a filter or search that fails returns the
\* input graph and pushes nothing.
C23_QueryPushesInput ==
  [][/\ (CommandType(lastOp'.text) \in QueryTypes /\ lastOp'.success)
          => /\ lastOp'.returned = "new"
             /\ lastOp'.top_is_input
             /\ StackEntries(heap', cli')
                  = Pushed(StackEntries(heap, cli),
                           [type |-> CommandType(lastOp'.text),
                            graph |-> GraphValue(heap, cli.graph)])
     /\ (CommandType(lastOp'.text) \in QueryTypes /\ ~lastOp'.success)
          => /\ lastOp'.exc = "none"
             /\ lastOp'.returned = "input"
             /\ GraphValue(heap', cli'.graph) = GraphValue(heap, cli.graph)
             /\ StackEntries(heap', cli') = StackEntries(heap, cli)
     /\ (CommandType(lastOp.text) \in QueryTypes /\ lastOp.success /\ lastOp'.text = <<"u", "n", "d", "o">>)
          => /\ lastOp.top_is_input
             /\ lastOp'.returned = "top"
             /\ GraphValue(heap', cli'.graph) = lastOp.before]_vars

\* a filter has dropped node A from the caller's graph and the graph it was
\* given is the one on top of the stack
C23_Witness ==
  /\ CommandType(lastOp.text) = "filter"
  /\ lastOp.success
  /\ lastOp.returned = "new"
  /\ lastOp.top_is_input
  /\ idA \notin NodeIdsOf(heap, cli.graph)
  /\ cli.undo_stack # <<>>
  /\ GraphValue(heap, cli.undo_stack[Len(cli.undo_stack)].graph) = lastOp.before
  /\ idA \in NodeIdsOf(heap, cli.undo_stack[Len(cli.undo_stack)].graph)

\* the verb of a command text, empty if the text holds no token
Verb(text) ==
  IF tokens_of(Strip(strip_comments(text, 1, FALSE, FALSE))) = <<>> THEN <<>>
  ELSE Lower(tokens_of(Strip(strip_comments(text, 1, FALSE, FALSE)))[1])

\* the call has left the caller's graph and the undo stack as they were and
\* has returned the graph it was given
Untouched ==
  /\ lastOp'.returned = "input"
  /\ GraphValue(heap', cli'.graph) = GraphValue(heap, cli.graph)
  /\ StackEntries(heap', cli') = StackEntries(heap, cli)

\* C24: process('reset') does not resolve the reset: in every state of the
\* processor it returns a successful result that carries the marker
\* data['action'] == 'reset' and the graph passed in, and changes neither
\* that graph nor the undo stack.
C24_ResetIsSentinel ==
  [][lastOp'.text = <<"r", "e", "s", "e", "t">>
       => /\ lastOp'.exc = "none"
          /\ lastOp'.success
          /\ <<"a", "c", "t", "i", "o", "n">> \in DOMAIN lastOp'.data
          /\ lastOp'.data[<<"a", "c", "t", "i", "o", "n">>] = <<"r", "e", "s", "e", "t">>
          /\ Untouched]_vars

\* a reset has returned with two entries on the stack
C24_Witness ==
  /\ lastOp.text = <<"r", "e", "s", "e", "t">>
  /\ lastOp.success
  /\ lastOp.returned = "input"
  /\ Len(cli.undo_stack) = 2
  /\ lastOp.data # EmptyMap

\* C25: help, info in all its forms and list in all its forms never change
\* the undo stack or the graph, whether they succeed or fail (unknown id,
\* unknown type).
C25_ReadOnlyCommands ==
  [][Verb(lastOp'.text) \in {<<"h", "e", "l", "p">>, <<"i", "n", "f", "o">>, <<"l", "i", "s", "t">>}
       => /\ lastOp'.exc = "none"
          /\ Untouched]_vars

\* an info on a node the graph does not hold has failed with an entry on the
\* stack
C25_Witness ==
  /\ lastOp.text = <<"i", "n", "f", "o", " ", "n", "o", "d", "e", " ", "Z">>
  /\ ~lastOp.success
  /\ lastOp.exc = "none"
  /\ Len(cli.undo_stack) = 2
  /\ GraphValue(heap, cli.graph) = lastOp.before

\* the id a delete, edit or create command names
CommandId(text) == parse(Strip(strip_comments(text, 1, FALSE, FALSE))).val.id

\* the edges of the graph that start or end at the node
IncidentEdges(H, g, node_id) ==
  {edge_id \in EdgeIdsOf(H, g) :
     \/ SourceId(H, EdgeObj(H, g, edge_id)) = node_id
     \/ TargetId(H, EdgeObj(H, g, edge_id)) = node_id}

\* C26: delete node fails whenever the node has an incident edge (as source
\* or target, directed or undirected, a self-loop included), and then
\* removes neither the node nor any edge and pushes nothing; it succeeds
\* only for a node of the graph without incident edge, so it never cascades.
C26_DeleteNodeNeverCascades ==
  [][CommandType(lastOp'.text) = "delete_node"
       => /\ lastOp'.exc = "none"
          /\ IncidentEdges(heap, cli.graph, CommandId(lastOp'.text)) # {}
               => ~lastOp'.success /\ Untouched
          /\ lastOp'.success
               => /\ CommandId(lastOp'.text) \in NodeIdsOf(heap, cli.graph)
                  /\ IncidentEdges(heap, cli.graph, CommandId(lastOp'.text)) = {}
                  /\ NodeIdsOf(heap', cli'.graph)
                       = NodeIdsOf(heap, cli.graph) \ {CommandId(lastOp'.text)}
                  /\ GraphValue(heap', cli'.graph).edges = GraphValue(heap, cli.graph).edges]_vars

\* delete node C has failed on the graph where C has a self-loop and no
\* other edge
C26_Witness ==
  /\ lastOp.text = <<"d", "e", "l", "e", "t", "e", " ", "n", "o", "d", "e", " ", "-", "-", "i", "d", "=", "C">>
  /\ ~lastOp.success
  /\ idC \in NodeIdsOf(heap, cli.graph)
  /\ IncidentEdges(heap, cli.graph, idC) = {idE3}
  /\ SourceId(heap, EdgeObj(heap, cli.graph, idE3)) = idC
  /\ TargetId(heap, EdgeObj(heap, cli.graph, idE3)) = idC

\* C27: when process returns a failed result for a create, edit or delete
\* command (duplicate id, id not found, missing source or target, parse
\* error), the graph passed in has the nodes, edges, adjacency and attribute
\* values it had before, and result.graph is that graph.
C27_FailedCommandKeepsGraph ==
  [][(/\ Verb(lastOp'.text) \in {<<"c", "r", "e", "a", "t", "e">>, <<"e", "d", "i", "t">>, <<"d", "e", "l", "e", "t", "e">>}
      /\ lastOp'.exc = "none"
      /\ ~lastOp'.success)
       => /\ lastOp'.returned = "input"
          /\ GraphValue(heap', cli'.graph) = GraphValue(heap, cli.graph)]_vars

\* create node A with a new Age has failed on a graph that holds A
C27_Witness ==
  /\ lastOp.text = <<"c", "r", "e", "a", "t", "e", " ", "n", "o", "d", "e", " ", "-", "-", "i", "d", "=", "A", " ", "-", "-", "p", "r", "o", "p", "e", "r", "t", "y", " ", "A", "g", "e", "=", "1">>
  /\ ~lastOp.success
  /\ lastOp.exc = "none"
  /\ lastOp.returned = "input"
  /\ idA \in NodeIdsOf(heap, cli.graph)
  /\ kAge \in DOMAIN NodeObj(heap, cli.graph, idA).attributes
  /\ NodeObj(heap, cli.graph, idA).attributes[kAge] = PyInt(30)

\* C28: process returns a CommandResult for every text and graph and lets
\* no exception escape, also when the --property keys of a create or edit
\* command are names of constructor parameters such as node_id, edge_id or
\* direction.
C28_NoExceptionEscapes == lastOp.exc = "none"
(***************************************************************************)
(* SpecAttr: one Node and one Edge, built by their constructors and then   *)
(* changed through set_attribute, update_attribute and delete_attribute.   *)
(* The node object lives in slot 1 of heap.node, the edge object (a loop   *)
(* on that node) in slot 1 of heap.edge.                                   *)
(***************************************************************************)
MaxAttrOps == 3

AttrKeys == {kAge, kName}

\* values passed by callers: None, an int, numerals, a date, plain text
AttrValues == {PyNone, PyInt(7), PyBool(TRUE), PyStr(<<"4", "2">>), PyStr(<<"1", ".", "5">>),
               PyStr(<<"2", "0", "2", "4", "-", "0", "1", "-", "0", "5">>), PyStr(<<"x">>)}

\* keyword arguments of the constructors
AttrKwargs == {EmptyMap,
               kAge :> PyNone,
               (kAge :> PyStr(<<"3", "0">>)) @@ (kName :> PyStr(<<"A", "n", "n">>)),
               (kName :> PyNone) @@ (kAge :> PyInt(7)),
               <<"n", "o", "d", "e", "_", "i", "d">> :> PyStr(<<"x">>)}

AttrCall(op, target, key, exc, had, n) ==
  [op |-> op, target |-> target, key |-> key, exc |-> exc, had |-> had, n |-> n]

InitAttr ==
  /\ heap = EmptyHeap
  /\ lastOp = AttrCall("init", "none", <<>>, "none", FALSE, 0)
  /\ ws = NoWorkspace
  /\ cli = NoProcessor

\* the object a call is made on
AttrObj(target) == IF target = "node" THEN heap.node[1] ELSE heap.edge[1]
Built(target) == AttrObj(target).kind # "free"

\* a constructor or a setter returns: the object is kept when nothing was raised
AttrReturn(r, op, target, key, had) ==
  /\ heap' = IF r.exc # "none" THEN heap
             ELSE IF target = "node" THEN [heap EXCEPT !.node[1] = r.val]
             ELSE [heap EXCEPT !.edge[1] = r.val]
  /\ lastOp' = AttrCall(op, target, key, r.exc, had, lastOp.n + 1)
  /\ UNCHANGED <<ws, cli>>

\* n = Node("A", **kwargs)
NewNode(kwargs) ==
  /\ ~Built("node") /\ lastOp.n < MaxAttrOps
  /\ AttrReturn(Node_init(idA, kwargs), "Node", "node", <<>>, FALSE)

\* e = Edge("e1", n, n, DIRECTED, **kwargs)
NewEdge(kwargs) ==
  /\ Built("node") /\ ~Built("edge") /\ lastOp.n < MaxAttrOps
  /\ AttrReturn(Edge_init(<<"e", "1">>, 1, 1, "DIRECTED", kwargs), "Edge", "edge", <<>>, FALSE)

SetAttribute(target, key, value) ==
  /\ Built(target) /\ lastOp.n < MaxAttrOps
  /\ AttrReturn(IF target = "node" THEN Node_set_attribute(AttrObj(target), key, value)
                ELSE Edge_set_attribute(AttrObj(target), key, value),
                "set_attribute", target, key, key \in DOMAIN AttrObj(target).attributes)

UpdateAttribute(target, key, value) ==
  /\ Built(target) /\ lastOp.n < MaxAttrOps
  /\ AttrReturn(IF target = "node" THEN Node_update_attribute(AttrObj(target), key, value)
                ELSE Edge_update_attribute(AttrObj(target), key, value),
                "update_attribute", target, key, key \in DOMAIN AttrObj(target).attributes)

DeleteAttribute(target, key) ==
  /\ Built(target) /\ lastOp.n < MaxAttrOps
  /\ AttrReturn(Ret(IF target = "node" THEN Node_delete_attribute(AttrObj(target), key)
                    ELSE Edge_delete_attribute(AttrObj(target), key)),
                "delete_attribute", target, key, key \in DOMAIN AttrObj(target).attributes)

AttrTargets == {"node", "edge"}

NextAttr ==
  \/ \E kwargs \in AttrKwargs : NewNode(kwargs)
  \/ \E kwargs \in AttrKwargs : NewEdge(kwargs)
  \/ \E target \in AttrTargets, key \in AttrKeys, value \in AttrValues :
       SetAttribute(target, key, value)
  \/ \E target \in AttrTargets, key \in AttrKeys, value \in AttrValues :
       UpdateAttribute(target, key, value)
  \/ \E target \in AttrTargets, key \in AttrKeys : DeleteAttribute(target, key)

SpecAttr == InitAttr /\ [][NextAttr]_vars

\* the two maps of an object agree: same keys, and a None value is tagged STR
MapsAgree(obj) ==
  /\ DOMAIN obj.attributes = DOMAIN obj.attribute_types
  /\ \A key \in DOMAIN obj.attributes :
       obj.attributes[key] = PyNone => obj.attribute_types[key] = "STR"

\* C29: for every Node and Edge, after any sequence of construction,
\* set_attribute, update_attribute and delete_attribute calls, the keys of
\* the attribute-value map are the keys of the attribute-type map, and every
\* attribute whose stored value is None carries the STR type tag.
C29_MapsAgree ==
  \A target \in AttrTargets : Built(target) => MapsAgree(AttrObj(target))

\* a delete_attribute has just removed an attribute of the edge that was
\* there, while the node holds an attribute whose value is None
C29_Witness ==
  /\ lastOp.op = "delete_attribute" /\ lastOp.target = "edge" /\ lastOp.had
  /\ Built("edge") /\ Built("node")
  /\ lastOp.key \notin DOMAIN heap.edge[1].attributes
  /\ \E key \in DOMAIN heap.node[1].attributes : heap.node[1].attributes[key] = PyNone
(***************************************************************************)
(* SpecTypes: a value is detected, converted to its detected type, and the *)
(* converted value is detected and converted again, as happens when a      *)
(* stored attribute value is passed to set_attribute once more.            *)
(***************************************************************************)
TypeValues ==
  {PyNone, PyBool(TRUE), PyBool(FALSE), PyInt(0 - 1), PyInt(0), PyInt(7),
   PyFloat(FALSE, 15, 0 - 1), PyFloat(TRUE, 0, 0), PyNaN, PyInf(FALSE), PyInf(TRUE),
   PyDate(2024, 1, 5),
   PyStr(<<"4", "2">>), PyStr(<<"0", "0", "7">>), PyStr(<<"-", "5">>), PyStr(<<"+", "5">>), PyStr(<<"1", ".", "5">>), PyStr(<<"1", "e", "5">>),
   PyStr(<<"n", "a", "n">>), PyStr(<<"i", "n", "f">>), PyStr(<<"-", "i", "n", "f">>), PyStr(<<"1", "_", "0", "0", "0">>), PyStr(<<" ", "4", "2", " ">>),
   PyStr(<<"2", "0", "2", "4", "-", "0", "1", "-", "0", "5">>), PyStr(<<"2", "0", "2", "4", "-", "0", "1", "-", "0", "5", "T", "1", "0", ":", "0", "0", ":", "0", "0">>), PyStr(<<"2", "0", "2", "4", "0", "1", "0", "5">>),
   PyStr(<<"x">>), PyStr(<<>>), PyStr(<<"T", "r", "u", "e">>), PyStr(<<"N", "o", "n", "e">>), PyStr(<<"1", "e", "4", "0", "0">>),
   PyStr(<<"0", "x", "1", "0">>), PyStr(<<".">>), PyStr(<<"e", "5">>),
   PyObject(<<"1", ".", "5">>), PyObject(<<"4", "2">>), PyObject(<<"2", "0", "2", "4", "-", "0", "1", "-", "0", "5">>), PyObject(<<"[", "1", ",", " ", "2", "]">>)}

TypeCall(op, v, t, c, t2, c2) ==
  [op |-> op, v |-> v, t |-> t, c |-> c, t2 |-> t2, c2 |-> c2]

InitTypes ==
  /\ \E v \in TypeValues : lastOp = TypeCall("init", v, "none", Raise("unset"), "none", Raise("unset"))
  /\ heap = EmptyHeap
  /\ ws = NoWorkspace
  /\ cli = NoProcessor

\* t = TypeValidator.detect_type(v)
Detect ==
  /\ lastOp.op = "init"
  /\ lastOp' = [lastOp EXCEPT !.op = "detect_type", !.t = detect_type(lastOp.v)]
  /\ UNCHANGED <<heap, ws, cli>>

\* c = TypeValidator.convert_to_type(v, t)
Convert ==
  /\ lastOp.op = "detect_type"
  /\ lastOp' = [lastOp EXCEPT !.op = "convert_to_type", !.c = convert_to_type(lastOp.v, lastOp.t)]
  /\ UNCHANGED <<heap, ws, cli>>

\* t2 = TypeValidator.detect_type(c); c2 = TypeValidator.convert_to_type(c, t)
Again ==
  /\ lastOp.op = "convert_to_type" /\ lastOp.c.exc = "none"
  /\ lastOp' = [lastOp EXCEPT !.op = "again", !.t2 = detect_type(lastOp.c.val),
                              !.c2 = convert_to_type(lastOp.c.val, lastOp.t)]
  /\ UNCHANGED <<heap, ws, cli>>

NextTypes == Detect \/ Convert \/ Again

SpecTypes == InitTypes /\ [][NextTypes]_vars

\* the second detection and conversion give what the first gave
SameAgain == lastOp.t2 = lastOp.t /\ lastOp.c2 = lastOp.c

\* values of the kinds the attribute system names, and None
Scalar(v) == v.k # "object"

\* for bool, int, float, date, str and None the second round changes nothing
ScalarsIdempotent == lastOp.op = "again" /\ Scalar(lastOp.v) => SameAgain

\* C30: type detection and conversion are idempotent: for every value v
\* with t = detect_type(v) and c = convert_to_type(v, t), detect_type(c) = t
\* and convert_to_type(c, t) = c, so storing a stored value again changes
\* neither the value nor its type tag.
C30_Idempotent == lastOp.op = "again" => SameAgain

\* a text that encodes an integer: digits, with or without a sign before them
IntegerText(s) == isdigit(Unsigned(s))

\* the text was detected as INT and stored as the integer it encodes
StoredAsInt == lastOp.t = "INT" /\ lastOp.c = int_of_str(lastOp.v.s)

\* texts of digits only are detected as INT and stored as integers
DigitTextsAreInt ==
  lastOp.op = "convert_to_type" /\ lastOp.v.k = "str" /\ isdigit(lastOp.v.s) => StoredAsInt

\* texts that are not of digits only go by the float parse, then the date
\* parse, then are strings
OtherTextsInOrder ==
  lastOp.op = "convert_to_type" /\ lastOp.v.k = "str" /\ ~isdigit(lastOp.v.s) =>
    lastOp.t = (IF float_of_str(lastOp.v.s).exc = "none" THEN "FLOAT"
                ELSE IF date_of_str(lastOp.v.s).exc = "none" THEN "DATE"
                ELSE "STR")

\* C36: detect_type on a string tries the integer parse first: every string
\* that encodes an integer, signed ones such as "-5" or "+7" included, is
\* detected as INT and stored as that integer.
C36_SignedIntegersAreInt ==
  lastOp.op = "convert_to_type" /\ lastOp.v.k = "str" /\ IntegerText(lastOp.v.s) => StoredAsInt

(***************************************************************************)
(* SpecCmd: a caller constructs command objects, calls execute on the      *)
(* graph it holds and later calls undo on any of the executed objects; the *)
(* graph of each result becomes the graph it holds.  cli.done lists the    *)
(* executed command objects with the content of the graph before execute.  *)
(***************************************************************************)
MaxCmdOps == 3

CmdGraphs == MaxCmdOps + 2

CmdEmptyHeap == [node |-> [r \in 1..(4 * CmdGraphs) |-> Free],
                 edge |-> [r \in 1..(2 * CmdGraphs) |-> Free],
                 graph |-> [r \in 1..CmdGraphs |-> Free]]

kNick == <<"N", "i", "c", "k">>
kNote == <<"N", "o", "t", "e">>
kColor == <<"C", "o", "l", "o", "r">>
idD == <<"D">>

\* A (Age 30, Name Ann, Nick None) -> B (Age 35) by e1 (Weight 1.5, Note
\* None), and C alone
CmdHeap ==
  set_edge_attribute(
    set_node_attribute(
      add_new_node(
        add_edge_between(
          add_new_node(
            add_new_node([CmdEmptyHeap EXCEPT !.graph[G1] = Graph_init(GraphName)],
                         G1, idA).heap,
            G1, idB).heap,
          G1, idE1, idA, idB, "DIRECTED").heap,
        G1, idC).heap,
      G1, idA, kNick, PyNone).heap,
    G1, idE1, kNote, PyNone).heap

\* the command objects the caller constructs
CmdCommands ==
  {CreateNodeCommand(idD, kAge :> <<"5">>),
   CreateNodeCommand(idC, EmptyMap),
   EditNodeCommand(idA, (kAge :> <<"4", "0">>) @@ (kColor :> <<"r", "e", "d">>)),
   EditNodeCommand(idA, kNick :> <<"x">>),
   DeleteNodeCommand(idC),
   DeleteNodeCommand(idB),
   CreateEdgeCommand(idE2, idA, idC, FALSE, kWeight :> <<"7">>),
   CreateEdgeCommand(idE1, idA, idB, TRUE, EmptyMap),
   EditEdgeCommand(idE1, (kWeight :> <<"2">>) @@ (kColor :> <<"r", "e", "d">>)),
   EditEdgeCommand(idE1, kNote :> <<"y">>),
   DeleteEdgeCommand(idE1),
   ClearCommand}

\* what a graph holds, whatever the order of its dicts and lists
GraphContent(H, g) ==
  [graph_id |-> H.graph[g].graph_id,
   nodes |-> [id \in NodeIdsOf(H, g) |-> H.node[DictGet(H.graph[g].nodes, id)]],
   edges |-> [id \in EdgeIdsOf(H, g) |-> EdgeValue(H, EdgeObj(H, g, id))],
   adjacency_list |-> [n \in DOMAIN H.graph[g].adjacency_list |->
                         EdgeIdSet(H, H.graph[g].adjacency_list[n])]]

CmdCall(op, i, exc, success, before, graph, n, direct) ==
  [op |-> op, i |-> i, exc |-> exc, success |-> success, before |-> before,
   graph |-> graph, n |-> n, direct |-> direct]

InitCmd ==
  /\ heap = CmdHeap
  /\ cli = [kind |-> "commands", graph |-> G1, done |-> <<>>]
  /\ lastOp = CmdCall("init", 0, "none", FALSE, GraphValue(CmdHeap, G1), G1, 0, FALSE)
  /\ ws = NoWorkspace

\* a call returns: the caller goes on with the graph of the result
CmdReturn(a, op, i, direct) ==
  /\ heap' = a.heap
  /\ cli' = [cli EXCEPT
               !.graph = IF a.exc = "none" THEN a.graph ELSE @,
               !.done = IF op = "execute"
                        THEN Append(@, [command |-> a.command,
                                        success |-> a.exc = "none" /\ a.success,
                                        before |-> GraphContent(heap, cli.graph)])
                        ELSE @]
  /\ lastOp' = CmdCall(op, i, a.exc, a.success, GraphValue(heap, cli.graph), cli.graph,
                       lastOp.n + 1, direct)
  /\ UNCHANGED ws

\* result = command.execute(graph)
CommandExecute(command) ==
  /\ lastOp.n < MaxCmdOps
  /\ CmdReturn(Command_execute(heap, cli.graph, command), "execute", Len(cli.done) + 1, FALSE)

\* result = command.undo(graph), command being the i-th object executed
CommandUndo(i) ==
  /\ lastOp.n < MaxCmdOps /\ i <= Len(cli.done)
  /\ CmdReturn(Command_undo(heap, cli.graph, cli.done[i].command), "undo", i,
               /\ i = Len(cli.done) /\ cli.done[i].success
               /\ lastOp.op = "execute")

NextCmd ==
  \/ \E command \in CmdCommands : CommandExecute(command)
  \/ \E i \in 1..MaxCmdOps : CommandUndo(i)

SpecCmd == InitCmd /\ [][NextCmd]_vars

\* C33: a successful execute(g) of a create, edit or delete command of a
\* node or an edge, or of clear, followed directly by the undo of the same
\* command object, yields a graph equal to g before the execute; an edit's
\* undo gives the edited attributes their previous values, removes those
\* that did not exist and keeps those that existed with a None value.
C33_UndoInvertsExecute ==
  lastOp.op = "undo" /\ lastOp.direct =>
    /\ lastOp.exc = "none" /\ lastOp.success
    /\ GraphContent(heap, cli.graph) = cli.done[lastOp.i].before

\* the command undone edited an attribute that was there with a None value
EditedNull(entry) ==
  /\ entry.command.type \in {"edit_node", "edit_edge"}
  /\ \E key \in DOMAIN entry.command.properties :
       LET objs == IF entry.command.type = "edit_node" THEN entry.before.nodes
                   ELSE entry.before.edges
       IN /\ entry.command.id \in DOMAIN objs
          /\ key \in DOMAIN objs[entry.command.id].attributes
          /\ objs[entry.command.id].attributes[key] = PyNone

\* apart from such edits the undo gives the graph of before the execute
UndoInvertsUnlessNull ==
  lastOp.op = "undo" /\ lastOp.direct /\ ~EditedNull(cli.done[lastOp.i]) =>
    /\ lastOp.exc = "none" /\ lastOp.success
    /\ GraphContent(heap, cli.graph) = cli.done[lastOp.i].before

\* the ids of a dict of a graph value
KeysOf(d) == {d[j].key : j \in 1..Len(d)}

\* the precondition of the undo of a successfully executed command does not
\* hold in the graph value before: the created entity is absent, the deleted
\* node or edge exists again, or an end of the deleted edge is missing
PreconditionGone(command, before) ==
  CASE command.type = "create_node" -> command.id \notin KeysOf(before.nodes)
    [] command.type = "create_edge" -> command.id \notin KeysOf(before.edges)
    [] command.type = "delete_node" -> command.id \in KeysOf(before.nodes)
    [] command.type = "delete_edge" ->
         \/ command.id \in KeysOf(before.edges)
         \/ command.source_id \notin KeysOf(before.nodes)
         \/ command.target_id \notin KeysOf(before.nodes)
    [] OTHER -> FALSE

\* C34: a Command.undo whose precondition no longer holds reports failure
\* and leaves the graph unchanged: the undo of a create when the entity is
\* absent, of a node deletion when a node with that id exists again, of an
\* edge deletion when an edge with that id exists again or when its saved
\* source or target node is no longer in the graph.
C34_StaleUndoFails ==
  /\ lastOp.op = "undo" /\ cli.done[lastOp.i].success
  /\ PreconditionGone(cli.done[lastOp.i].command, lastOp.before)
  => /\ lastOp.exc = "none" /\ ~lastOp.success
     /\ cli.graph = lastOp.graph
     /\ GraphValue(heap, cli.graph) = lastOp.before

\* the third call is the undo of the deletion of e1, made after node B, an
\* end of e1, was deleted: it failed
C34_Witness ==
  /\ lastOp.op = "undo" /\ lastOp.n = 3 /\ ~lastOp.success
  /\ cli.done[lastOp.i].success
  /\ cli.done[lastOp.i].command.type = "delete_edge"
  /\ cli.done[lastOp.i].command.target_id = idB
  /\ idB \notin KeysOf(lastOp.before.nodes)
  /\ cli.done[lastOp.i].command.id \notin KeysOf(lastOp.before.edges)
(***************************************************************************)
(* SpecHeld: a caller feeds command texts to one CommandProcessor and      *)
(* passes, with each text, any graph it holds: the graph it started with   *)
(* or a graph a result gave it.  cli.held lists those graphs, cli.pushed   *)
(* the value each entry of the undo stack had when it was pushed, and      *)
(* cli.straight tells whether every call so far passed the graph of the    *)
(* result before it.                                                       *)
(***************************************************************************)
HeldTexts ==
  {<<"f", "i", "l", "t", "e", "r", " ", "A", "g", "e", " ", ">", "=", " ", "3", "0">>,
   <<"s", "e", "a", "r", "c", "h", " ", "N", "a", "m", "e">>,
   <<"c", "r", "e", "a", "t", "e", " ", "n", "o", "d", "e", " ", "-", "-", "i", "d", "=", "C", " ", "-", "-", "p", "r", "o", "p", "e", "r", "t", "y", " ", "A", "g", "e", "=", "5">>,
   <<"e", "d", "i", "t", " ", "n", "o", "d", "e", " ", "-", "-", "i", "d", "=", "A", " ", "-", "-", "p", "r", "o", "p", "e", "r", "t", "y", " ", "A", "g", "e", "=", "4", "0">>,
   <<"d", "e", "l", "e", "t", "e", " ", "e", "d", "g", "e", " ", "-", "-", "i", "d", "=", "e", "1">>,
   <<"c", "l", "e", "a", "r">>,
   <<"u", "n", "d", "o">>}

InitHeld ==
  /\ heap = CliHeap
  /\ ws = NoWorkspace
  /\ cli = [kind |-> "processor", graph |-> G1, undo_stack |-> <<>>, held |-> <<G1>>,
            pushed |-> <<>>, straight |-> TRUE]
  /\ lastOp = CliCall(<<>>, "none", FALSE, GraphValue(CliHeap, G1), 0, EmptyMap, "none", FALSE)

\* the values at push time of the entries of the stack after a call: an
\* entry more on a push, an entry less on a pop
PushedAfter(a, pushed) ==
  IF Len(a.undo_stack) > Len(pushed)
  THEN Append(pushed, GraphValue(a.heap, a.undo_stack[Len(a.undo_stack)].graph))
  ELSE SubSeq(pushed, 1, Len(a.undo_stack))

\* processor.process(text, graph) returns; the caller keeps result.graph
HeldReturn(a, text, graph) ==
  /\ heap' = a.heap
  /\ cli' = [kind |-> "processor",
             graph |-> IF a.exc = "none" THEN a.graph ELSE graph,
             undo_stack |-> a.undo_stack,
             held |-> IF a.exc = "none" THEN Uniq(Append(cli.held, a.graph)) ELSE cli.held,
             pushed |-> PushedAfter(a, cli.pushed),
             straight |-> cli.straight /\ graph = cli.graph]
  /\ UNCHANGED ws
  /\ lastOp' = CliCall(text, a.exc, a.success, GraphValue(heap, graph), lastOp.n + 1,
                       a.data, Returned(a, [cli EXCEPT !.graph = graph]),
                       TopIsInput(a, [cli EXCEPT !.graph = graph]))

\* result = processor.process(text, graph) with the h-th graph held
ProcessHeld(text, h) ==
  /\ lastOp.n < MaxCliOps /\ h <= Len(cli.held)
  /\ \E order \in IterationOrders(text_matching(heap, cli.held[h],
                                                Strip(strip_comments(text, 1, FALSE, FALSE)))) :
       HeldReturn(process(heap, cli.undo_stack, text, cli.held[h], order), text, cli.held[h])

NextHeld == \E text \in HeldTexts, h \in 1..(MaxCliOps + 1) : ProcessHeld(text, h)

SpecHeld == InitHeld /\ [][NextHeld]_vars

\* every entry of the stack holds a graph with the value it was pushed with
EntriesFrozen ==
  \A i \in 1..Len(cli.undo_stack) :
    GraphValue(heap, cli.undo_stack[i].graph) = cli.pushed[i]

\* C35: no graph held in an entry of the undo stack is changed by a later
\* process call, whichever graph passed or returned before the caller
\* supplies: each entry's graph keeps the value it was pushed with until
\* the entry is popped.
C35_SnapshotsNeverChange == EntriesFrozen

\* a caller that passes to each call the graph of the result before it
\* finds the entries as they were pushed
StraightCallerFrozen == cli.straight => EntriesFrozen
(***************************************************************************)
(* GraphPlatform.  _workspaces is a dict from workspace ids to Workspace   *)
(* objects, in insertion order; the id None is 0.  A workspace id comes    *)
(* from uuid4 and is never given twice: ids counts the ids given so far.   *)
(* _listeners maps an event to the list of its callbacks.                   *)
(***************************************************************************)
EVENT_WORKSPACE_CREATED == "workspace_created"
EVENT_WORKSPACE_SWITCHED == "workspace_switched"
EVENT_WORKSPACE_REMOVED == "workspace_removed"
EVENT_GRAPH_UPDATED == "graph_updated"
Events == {EVENT_WORKSPACE_CREATED, EVENT_WORKSPACE_SWITCHED, EVENT_WORKSPACE_REMOVED,
           EVENT_GRAPH_UPDATED}

\* outcome of a GraphPlatform method; invoked lists the callbacks it called
PlatDone(H, p, val) == [exc |-> "none", heap |-> H, p |-> p, val |-> val, invoked |-> <<>>]
PlatFail(H, p, e) == [exc |-> e, heap |-> H, p |-> p, val |-> 0, invoked |-> <<>>]

\* GraphPlatform.__init__
Platform_init(max_history_depth) ==
  [kind |-> "platform", workspaces |-> <<>>, active_workspace_id |-> 0,
   listeners |-> [e \in Events |-> <<>>], ids |-> 0,
   max_history_depth |-> max_history_depth]

\* GraphPlatform.config = value, for a PlatformConfig with that
\* max_history_depth: workspaces created from now on take the new depth,
\* those of the table keep theirs
config_setter(p, max_history_depth) ==
  [p EXCEPT !.max_history_depth = max_history_depth]

\* the callbacks a caller subscribes, and what a call of each raises
Callbacks == {"logs", "fails"}
RaisedBy(cb) == IF cb = "fails" THEN "RuntimeError" ELSE "none"

\* the exceptions "except Exception" catches
CaughtAsException == {"RuntimeError"}

\* GraphPlatform.subscribe
subscribe(p, event, callback) == [p EXCEPT !.listeners[event] = Append(@, callback)]

\* list.remove: the first occurrence goes
ListRemove(s, x) ==
  SubSeq(s, 1, FirstIn(s, {x}) - 1) \o SubSeq(s, FirstIn(s, {x}) + 1, Len(s))

\* GraphPlatform.unsubscribe
unsubscribe(p, event, callback) ==
  IF callback \in Range(p.listeners[event])
  THEN [p EXCEPT !.listeners[event] = ListRemove(@, callback)]
  ELSE p

\* the loop of _notify from the i-th callback on: what a callback raises is
\* caught when it is an Exception, and the loop goes on
RECURSIVE notify_from(_, _, _)
notify_from(a, callbacks, i) ==
  IF i > Len(callbacks) THEN a
  ELSE IF RaisedBy(callbacks[i]) \in {"none"} \cup CaughtAsException
  THEN notify_from([a EXCEPT !.invoked = Append(@, callbacks[i])], callbacks, i + 1)
  ELSE [a EXCEPT !.invoked = Append(@, callbacks[i]), !.exc = RaisedBy(callbacks[i]), !.val = 0]

\* _notify that lets the exception of a callback pass
notify_aborting(a, event) ==
  IF \E i \in 1..Len(a.p.listeners[event]) : RaisedBy(a.p.listeners[event][i]) # "none"
  THEN [a EXCEPT !.invoked = SubSeq(a.p.listeners[event], 1,
                                    FirstIn(a.p.listeners[event], {"fails"})),
                 !.exc = "RuntimeError", !.val = 0]
  ELSE [a EXCEPT !.invoked = a.p.listeners[event]]

\* GraphPlatform._notify at the end of a method whose outcome so far is a
notify(a, event) == notify_from(a, a.p.listeners[event], 1)

\* the two assignments of create_workspace, a being the new Workspace
workspace_added(a, p, id) ==
  PlatDone(a.heap,
           [p EXCEPT !.workspaces = DictPut(@, id, a.ws), !.active_workspace_id = id,
                     !.ids = id],
           id)

\* GraphPlatform.create_workspace; the value is the id of the workspace
create_workspace(H, p, graph) ==
  notify(workspace_added(Workspace_init(H, graph, p.max_history_depth), p, p.ids + 1),
         EVENT_WORKSPACE_CREATED)

\* GraphPlatform.set_active_workspace
set_active_workspace(H, p, workspace_id) ==
  IF ~DictHas(p.workspaces, workspace_id) THEN PlatFail(H, p, "ValueError")
  ELSE notify(PlatDone(H, [p EXCEPT !.active_workspace_id = workspace_id], workspace_id),
              EVENT_WORKSPACE_SWITCHED)

\* the table without the workspace, the active id moved off it
workspace_deleted(p, workspace_id, rest) ==
  [p EXCEPT !.workspaces = rest,
            !.active_workspace_id =
               IF p.active_workspace_id # workspace_id THEN p.active_workspace_id
               ELSE IF rest # <<>> THEN rest[1].key
               ELSE 0]

\* remove_workspace that leaves the active id as it is
remove_workspace_keeping_active(H, p, workspace_id) ==
  IF ~DictHas(p.workspaces, workspace_id) THEN PlatDone(H, p, 0)
  ELSE notify(PlatDone(H, [p EXCEPT !.workspaces = DictDel(@, workspace_id)], 0),
              EVENT_WORKSPACE_REMOVED)

\* GraphPlatform.remove_workspace
remove_workspace(H, p, workspace_id) ==
  IF ~DictHas(p.workspaces, workspace_id) THEN PlatDone(H, p, 0)
  ELSE notify(PlatDone(H, workspace_deleted(p, workspace_id, DictDel(p.workspaces, workspace_id)),
                       0),
              EVENT_WORKSPACE_REMOVED)

\* GraphPlatform._resolve_workspace: the id of the workspace
resolved(p, wid) ==
  IF wid = 0 THEN Raise("RuntimeError")
  ELSE IF ~DictHas(p.workspaces, wid) THEN Raise("RuntimeError")
  ELSE Ret(wid)
resolve_workspace(p, workspace_id) ==
  resolved(p, IF workspace_id # 0 THEN workspace_id ELSE p.active_workspace_id)

\* the method of the workspace has returned a; the observers hear of the
\* result when notifies
graph_updated(p, wid, a, notifies) ==
  IF a.exc # "none" THEN PlatFail(a.heap, [p EXCEPT !.workspaces = DictPut(@, wid, a.ws)], a.exc)
  ELSE IF notifies
  THEN notify(PlatDone(a.heap, [p EXCEPT !.workspaces = DictPut(@, wid, a.ws)], a.val),
              EVENT_GRAPH_UPDATED)
  ELSE PlatDone(a.heap, [p EXCEPT !.workspaces = DictPut(@, wid, a.ws)], a.val)

\* GraphPlatform.filter_graph
filter_graph(H, p, query, workspace_id, order) ==
  IF resolve_workspace(p, workspace_id).exc # "none"
  THEN PlatFail(H, p, resolve_workspace(p, workspace_id).exc)
  ELSE graph_updated(p, resolve_workspace(p, workspace_id).val,
                     apply_filter(H, DictGet(p.workspaces, resolve_workspace(p, workspace_id).val),
                                  query, order),
                     TRUE)

\* GraphPlatform.search_graph
search_graph(H, p, query, workspace_id, order) ==
  IF resolve_workspace(p, workspace_id).exc # "none"
  THEN PlatFail(H, p, resolve_workspace(p, workspace_id).exc)
  ELSE graph_updated(p, resolve_workspace(p, workspace_id).val,
                     apply_search(H, DictGet(p.workspaces, resolve_workspace(p, workspace_id).val),
                                  query, order),
                     TRUE)

\* GraphPlatform.undo: observers hear of it when undo returned a graph
undone(p, wid, a) == graph_updated(p, wid, a, a.val # 0)
Platform_undo(H, p, workspace_id) ==
  IF resolve_workspace(p, workspace_id).exc # "none"
  THEN PlatFail(H, p, resolve_workspace(p, workspace_id).exc)
  ELSE undone(p, resolve_workspace(p, workspace_id).val,
              Workspace_undo(H, DictGet(p.workspaces, resolve_workspace(p, workspace_id).val)))

\* GraphPlatform.reset_workspace
reset_workspace(H, p, workspace_id) ==
  IF resolve_workspace(p, workspace_id).exc # "none"
  THEN PlatFail(H, p, resolve_workspace(p, workspace_id).exc)
  ELSE graph_updated(p, resolve_workspace(p, workspace_id).val,
                     Workspace_reset(H, DictGet(p.workspaces,
                                                resolve_workspace(p, workspace_id).val)),
                     TRUE)
(***************************************************************************)
(* SpecPlatform: a caller constructs a GraphPlatform, subscribes and       *)
(* unsubscribes callbacks, and calls its workspace and graph methods with  *)
(* the graph A -> B.  lastOp records the call, the exception it raised,    *)
(* its value, the callbacks it called and the number n of method calls so  *)
(* far.                                                                    *)
(***************************************************************************)
MaxPlatOps == 3
MaxListeners == 2

\* the workspace ids a caller passes: those given so far and one more
PlatIds == 1..MaxPlatOps

PlatFilterQuery == <<"A", "g", "e", " ", ">", "=", " ", "3", "5">>
PlatSearchQuery == <<"N", "a", "m", "e">>

PlatCall(op, a, wid, order, exc, val, invoked, n) ==
  [op |-> op, a |-> a, wid |-> wid, order |-> order, exc |-> exc, val |-> val,
   invoked |-> invoked, n |-> n]

InitPlatform ==
  /\ heap = CliHeap
  /\ ws = NoWorkspace
  /\ cli = Platform_init(MaxHistory)
  /\ lastOp = PlatCall("init", 0, 0, <<>>, "none", 0, <<>>, 0)

\* the method call of a record of lastOp, on the platform p
PlatformCall(H, p, call) ==
  CASE call.op = "create_workspace" -> create_workspace(H, p, G1)
    [] call.op = "set_active_workspace" -> set_active_workspace(H, p, call.a)
    [] call.op = "remove_workspace" -> remove_workspace(H, p, call.a)
    [] call.op = "filter_graph" -> filter_graph(H, p, call.a, call.wid, call.order)
    [] call.op = "search_graph" -> search_graph(H, p, call.a, call.wid, call.order)
    [] call.op = "undo" -> Platform_undo(H, p, call.wid)
    [] call.op = "reset_workspace" -> reset_workspace(H, p, call.wid)

\* a method of the platform returns
PlatReturn(a, op, arg, wid, order) ==
  /\ heap' = a.heap
  /\ cli' = a.p
  /\ UNCHANGED ws
  /\ lastOp' = PlatCall(op, arg, wid, order, a.exc, a.val, a.invoked, lastOp.n + 1)

\* the orders in which the service may iterate the ids a query matches
PlatOrders(H, p, wid, query, filters) ==
  IF resolve_workspace(p, wid).exc # "none" THEN {<<>>}
  ELSE IF filters
  THEN IterationOrders(Filter_matching(
         H, DictGet(p.workspaces, resolve_workspace(p, wid).val).current_graph, query))
  ELSE IterationOrders(Search_matching(
         H, DictGet(p.workspaces, resolve_workspace(p, wid).val).current_graph, query))

\* ws = platform.create_workspace(g)
CreateWorkspace ==
  /\ lastOp.n < MaxPlatOps
  /\ PlatReturn(create_workspace(heap, cli, G1), "create_workspace", 0, 0, <<>>)

\* platform.set_active_workspace(id)
SetActiveWorkspace(id) ==
  /\ lastOp.n < MaxPlatOps
  /\ PlatReturn(set_active_workspace(heap, cli, id), "set_active_workspace", id, 0, <<>>)

\* platform.remove_workspace(id)
RemoveWorkspace(id) ==
  /\ lastOp.n < MaxPlatOps
  /\ PlatReturn(remove_workspace(heap, cli, id), "remove_workspace", id, 0, <<>>)

\* platform.filter_graph(query, wid)
FilterGraph(wid) ==
  /\ lastOp.n < MaxPlatOps
  /\ \E order \in PlatOrders(heap, cli, wid, PlatFilterQuery, TRUE) :
       PlatReturn(filter_graph(heap, cli, PlatFilterQuery, wid, order),
                  "filter_graph", PlatFilterQuery, wid, order)

\* platform.search_graph(query, wid)
SearchGraph(wid) ==
  /\ lastOp.n < MaxPlatOps
  /\ \E order \in PlatOrders(heap, cli, wid, PlatSearchQuery, FALSE) :
       PlatReturn(search_graph(heap, cli, PlatSearchQuery, wid, order),
                  "search_graph", PlatSearchQuery, wid, order)

\* platform.undo(wid)
UndoGraph(wid) ==
  /\ lastOp.n < MaxPlatOps
  /\ PlatReturn(Platform_undo(heap, cli, wid), "undo", 0, wid, <<>>)

\* platform.reset_workspace(wid)
ResetWorkspace(wid) ==
  /\ lastOp.n < MaxPlatOps
  /\ PlatReturn(reset_workspace(heap, cli, wid), "reset_workspace", 0, wid, <<>>)

\* how many callbacks are subscribed
RECURSIVE Subscribed(_, _)
Subscribed(p, events) ==
  IF events = {} THEN 0
  ELSE Len(p.listeners[Pick(events)]) + Subscribed(p, events \ {Pick(events)})

\* platform.subscribe(event, callback)
Subscribe(event, callback) ==
  /\ Subscribed(cli, Events) < MaxListeners
  /\ cli' = subscribe(cli, event, callback)
  /\ lastOp' = PlatCall("subscribe", event, 0, <<>>, "none", 0, <<>>, lastOp.n)
  /\ UNCHANGED <<heap, ws>>

\* platform.unsubscribe(event, callback)
Unsubscribe(event, callback) ==
  /\ cli' = unsubscribe(cli, event, callback)
  /\ lastOp' = PlatCall("unsubscribe", event, 0, <<>>, "none", 0, <<>>, lastOp.n)
  /\ UNCHANGED <<heap, ws>>

\* platform.config = PlatformConfig(max_history_depth=depth)
SetConfig(depth) ==
  /\ lastOp.n < MaxPlatOps
  /\ cli' = config_setter(cli, depth)
  /\ lastOp' = PlatCall("config", depth, 0, <<>>, "none", 0, <<>>, lastOp.n + 1)
  /\ UNCHANGED <<heap, ws>>

NextPlatform ==
  \/ CreateWorkspace
  \/ \E depth \in 0..MaxHistory : SetConfig(depth)
  \/ \E id \in PlatIds : SetActiveWorkspace(id)
  \/ \E id \in PlatIds : RemoveWorkspace(id)
  \/ \E wid \in 0..1 : FilterGraph(wid)
  \/ \E wid \in 0..1 : SearchGraph(wid)
  \/ \E wid \in 0..1 : UndoGraph(wid)
  \/ \E wid \in 0..1 : ResetWorkspace(wid)
  \/ \E event \in Events, callback \in Callbacks : Subscribe(event, callback)
  \/ \E event \in Events, callback \in Callbacks : Unsubscribe(event, callback)

SpecPlatform == InitPlatform /\ [][NextPlatform]_vars

\* the active id is None exactly when the table is empty, and else the id
\* of a workspace of the table
ActiveInTable ==
  /\ cli.active_workspace_id = 0 <=> cli.workspaces = <<>>
  /\ cli.active_workspace_id # 0 => DictHas(cli.workspaces, cli.active_workspace_id)

\* create_workspace puts a new workspace into the table and makes it active
CreateActivates ==
  lastOp'.op = "create_workspace" =>
    /\ ~DictHas(cli.workspaces, lastOp'.val)
    /\ DictHas(cli'.workspaces, lastOp'.val)
    /\ cli'.active_workspace_id = lastOp'.val

\* set_active_workspace with an id not in the table raises ValueError and
\* leaves the platform as it was
UnknownIdRaises ==
  (lastOp'.op = "set_active_workspace" /\ ~DictHas(cli.workspaces, lastOp'.a)) =>
    lastOp'.exc = "ValueError" /\ cli' = cli

\* C39: in every state reached by create_workspace, set_active_workspace
\* and remove_workspace calls, unknown ids included, the active workspace
\* id is None exactly when no workspace exists and is otherwise the id of a
\* workspace in the table; create_workspace makes the new workspace active,
\* and set_active_workspace with an unknown id raises without changing the
\* active id.
C39_ActiveIdConsistent ==
  []ActiveInTable /\ [][CreateActivates /\ UnknownIdRaises]_vars

\* the second of two workspaces, the active one, has been removed: the
\* first one is active
C39_Witness ==
  /\ lastOp.op = "remove_workspace" /\ lastOp.a = 2 /\ lastOp.n = 3
  /\ DictKeys(cli.workspaces) = {1}
  /\ cli.active_workspace_id = 1

\* the event a method notifies
EventOf(op) ==
  CASE op = "create_workspace" -> EVENT_WORKSPACE_CREATED
    [] op = "set_active_workspace" -> EVENT_WORKSPACE_SWITCHED
    [] op = "remove_workspace" -> EVENT_WORKSPACE_REMOVED
    [] OTHER -> EVENT_GRAPH_UPDATED

Notifying == {"create_workspace", "set_active_workspace", "remove_workspace",
              "filter_graph", "search_graph", "undo", "reset_workspace"}

\* the platform without its subscriptions
Quiet(p) == [p EXCEPT !.listeners = [e \in Events |-> <<>>]]

\* the outcome quiet of a call on the platform without subscriptions is one
\* that notifies the observers
Triggers(p, call, quiet) ==
  /\ quiet.exc = "none"
  /\ call.op = "remove_workspace" => DictHas(p.workspaces, call.a)
  /\ call.op = "undo" => quiet.val # 0

\* the call ended as it does without subscriptions, having called every
\* callback of its event in order
CompletesAs(quiet) ==
  /\ lastOp'.exc = quiet.exc /\ lastOp'.val = quiet.val
  /\ heap' = quiet.heap
  /\ Quiet(cli') = quiet.p
  /\ cli'.listeners = cli.listeners
  /\ lastOp'.invoked = cli.listeners[EventOf(lastOp'.op)]

\* C40: when a callback subscribed to the event of create_workspace,
\* set_active_workspace, remove_workspace, filter_graph, search_graph, undo
\* or reset_workspace raises during the notification, the method still
\* completes with its normal state change and return value, and every
\* other callback subscribed to that event is still called.
C40_CallbackFailureContained ==
  [][(/\ lastOp'.op \in Notifying
      /\ "fails" \in Range(cli.listeners[EventOf(lastOp'.op)])
      /\ Triggers(cli, lastOp', PlatformCall(heap, Quiet(cli), lastOp'))) =>
       CompletesAs(PlatformCall(heap, Quiet(cli), lastOp'))]_vars

\* undo restored a graph and notified the failing callback, then the other
C40_Witness ==
  /\ lastOp.op = "undo" /\ lastOp.exc = "none" /\ lastOp.val # 0
  /\ lastOp.invoked = <<"fails", "logs">>
  /\ history_depth(DictGet(cli.workspaces, 1)) = 0

(***************************************************************************)
(* SpecUndo: a caller runs up to MaxCommands undo-capable commands in a    *)
(* row on the graph with the single node A, each on the graph of the       *)
(* result before, and at any point starts to undo, one undo after the      *)
(* other, until an undo has failed.  The n-th command sets Age to n; every *)
(* tenth from the fifth on is a filter instead.  lastOp records the number *)
(* n of commands, the number k of undos, the result of the last call and,  *)
(* in befores, what the caller's graph looked like before each command.    *)
(***************************************************************************)
UndoHeap ==
  add_new_node([node |-> [r \in 1..(max_undo + 4) |-> Free],
                edge |-> [r \in 1..1 |-> Free],
                graph |-> [r \in 1..(max_undo + 4) |->
                             IF r = G1 THEN Graph_init(GraphName) ELSE Free]],
               G1, idA).heap

UndoCall(text, exc, success, n, k, befores) ==
  [op |-> "process", text |-> text, exc |-> exc, success |-> success,
   n |-> n, k |-> k, befores |-> befores]

InitUndo ==
  /\ heap = UndoHeap
  /\ ws = NoWorkspace
  /\ cli = Processor_init(G1)
  /\ lastOp = UndoCall(<<>>, "none", FALSE, 0, 0, <<>>)

\* the text of the n-th command
NthCommand(n) ==
  IF n % 10 = 5 THEN <<"f", "i", "l", "t", "e", "r", " ", "A", "g", "e", " ", ">", " ", "0">>
  ELSE <<"e", "d", "i", "t", " ", "n", "o", "d", "e", " ", "-", "-", "i", "d", "=", "A", " ", "-", "-", "p", "r", "o", "p", "e", "r", "t", "y", " ", "A", "g", "e", "=">> \o NatStr(n)

\* processor.process(text, graph) returns, k undos having been made
UndoReturn(a, text, n, k, befores) ==
  /\ heap' = WsHeap(a.heap, CliRoots([graph |-> continued(a), undo_stack |-> a.undo_stack]))
  /\ cli' = CliRefs([graph |-> continued(a), undo_stack |-> a.undo_stack],
                    CliRoots([graph |-> continued(a), undo_stack |-> a.undo_stack]))
  /\ UNCHANGED ws
  /\ lastOp' = UndoCall(text, a.exc, a.success, n, k, befores)

\* result = processor.process(the next command, graph)
NextCommand ==
  /\ lastOp.k = 0
  /\ lastOp.n < MaxCommands
  /\ UndoReturn(process(heap, cli.undo_stack, NthCommand(lastOp.n + 1), cli.graph, <<idA>>),
                NthCommand(lastOp.n + 1), lastOp.n + 1, 0,
                Append(lastOp.befores, GraphValue(heap, cli.graph)))

\* result = processor.process("undo", graph), until one has failed
NextUndo ==
  /\ lastOp.k = 0 \/ lastOp.success
  /\ UndoReturn(process(heap, cli.undo_stack, <<"u", "n", "d", "o">>, cli.graph, <<>>),
                <<"u", "n", "d", "o">>, lastOp.n, lastOp.k + 1, lastOp.befores)

NextUndoing == NextCommand \/ NextUndo

SpecUndo == InitUndo /\ [][NextUndoing]_vars

\* the depth the stack has after n commands
DepthAfter(n) == IF n < 50 THEN n ELSE 50

\* C21: the undo stack never holds more than 50 entries; after N successful
\* undo-capable commands with no undo in between its depth is min(N, 50);
\* the k-th undo in a row, k <= min(N, 50), returns the graph as it was just
\* before the k-th most recent command; the undo after those reports failure,
\* so the graphs before the N - 50 oldest commands are out of reach.
C21_BoundedUndo ==
  /\ Len(cli.undo_stack) <= 50
  /\ lastOp.k = 0 => Len(cli.undo_stack) = DepthAfter(lastOp.n)
  /\ (lastOp.n >= 1 /\ lastOp.k = 0) => lastOp.success /\ lastOp.exc = "none"
  /\ (lastOp.k >= 1 /\ lastOp.k <= DepthAfter(lastOp.n))
       => /\ lastOp.success
          /\ Len(cli.undo_stack) = DepthAfter(lastOp.n) - lastOp.k
          /\ GraphValue(heap, cli.graph) = lastOp.befores[lastOp.n - lastOp.k + 1]
  /\ lastOp.k = DepthAfter(lastOp.n) + 1
       => /\ ~lastOp.success
          /\ lastOp.exc = "none"
          /\ cli.undo_stack = <<>>
          /\ lastOp.n >= 1
               => GraphValue(heap, cli.graph) = lastOp.befores[lastOp.n - DepthAfter(lastOp.n) + 1]

\* 52 commands have run and the 51st undo in a row has failed, the caller
\* holding the graph as it was before the third command
C21_Witness ==
  /\ lastOp.n = 52
  /\ lastOp.k = 51
  /\ ~lastOp.success
  /\ GraphValue(heap, cli.graph) = lastOp.befores[3]
  /\ lastOp.befores[3] # lastOp.befores[1]
  /\ lastOp.befores[3] # lastOp.befores[2]

====
